---------------------------- MODULE Spec2Model ----------------------------
(***************************************************************************)
(* Model of the sharded LRU/TTL order cache (internal/cache/cache.go):     *)
(* construction (New), the hash router (shardFor), Set, Get,               *)
(* LoadFromSlice, the background reaper (startCleaner / evictExpired) and  *)
(* Close.  Callers are tasks that run the operations step by step, each    *)
(* step being a maximal piece of code executed under one lock state.       *)
(* Around the cache, the server process (cmd/server/main.go): run, the     *)
(* Kafka consumer goroutine, the /order handler and the signal goroutine,  *)
(* with the connection retry of pkg/utils and pkg/client/postgres.         *)
(***************************************************************************)
EXTENDS Integers, Sequences, FiniteSets, TLC

(***************************************************************************)
(* Bounds of the model.                                                    *)
(***************************************************************************)
\* width in bits of the machine integer `int` (64 in the build; scaled down)
IntBits == 8
\* the clock runs from 0 to MaxTime
MaxTime == 2
\* number of Sets and Gets concurrent callers may start in one behaviour
MaxCalls == 3
\* number of Sets and Gets a single caller may start in a sequential behaviour
MaxSeqCalls == 4
\* number of Close calls made on one cache
MaxCloses == 2
\* number of concurrent caller tasks
NumTasks == 2
\* number of Sets and Gets callers may start in a behaviour with Close calls
MaxLifeCalls == 2

\* time.Minute, in the model's time unit (one second)
Minute == 60

Pow2(n) == 2 ^ n
MaxInt == Pow2(IntBits - 1) - 1
MinInt == 0 - Pow2(IntBits - 1)

\* two's-complement wrap of an integer into the machine integer type
WrapInt(x) ==
  LET m == x % Pow2(IntBits)
  IN  IF m > MaxInt THEN m - Pow2(IntBits) ELSE m

\* sc <<= 1 on the machine integer type
Shl1(x) == WrapInt(2 * x)

Max(a, b) == IF a >= b THEN a ELSE b

(***************************************************************************)
(* Keys are byte strings; values are orders carrying the key (OrderUid)    *)
(* and a payload.                                                          *)
(***************************************************************************)
KeyA == <<97>>
KeyB == <<98>>
KeyC == <<99>>
Keys == {KeyA, KeyB, KeyC}
Payloads == {1, 2}
Order(k, p) == [OrderUid |-> k, data |-> p]
Orders == {Order(k, p) : k \in Keys, p \in Payloads}
\* orders.Order{}: the zero value returned with found = false
ZeroOrder == [OrderUid |-> << >>, data |-> 0]

(***************************************************************************)
(* Bit operations and FNV-1a (hash/fnv New32a) on 32-bit words kept as     *)
(* two 16-bit limbs, so that no intermediate product leaves the range of   *)
(* the checker's integers.                                                 *)
(***************************************************************************)
RECURSIVE BitXor(_, _, _)
BitXor(a, b, n) ==
  IF n = 0 THEN 0
  ELSE (((a % 2) + (b % 2)) % 2) + 2 * BitXor(a \div 2, b \div 2, n - 1)

RECURSIVE BitAnd(_, _, _)
BitAnd(a, b, n) ==
  IF n = 0 THEN 0
  ELSE ((a % 2) * (b % 2)) + 2 * BitAnd(a \div 2, b \div 2, n - 1)

Limb == Pow2(16)
\* offset basis 2166136261 = 0x811C9DC5
FnvOffsetHi == 33052
FnvOffsetLo == 40389
\* prime 16777619 = 0x01000193 = 256 * 2^16 + 403
FnvPrimeHi == 256
FnvPrimeLo == 403

\* one round: hash ^= byte; hash *= prime (mod 2^32)
FnvRound(h, b) ==
  LET lo == BitXor(h.lo, b, 16)
      p  == lo * FnvPrimeLo
  IN  [lo |-> p % Limb,
       hi |-> (h.hi * FnvPrimeLo + lo * FnvPrimeHi + p \div Limb) % Limb]

RECURSIVE FnvFrom(_, _)
FnvFrom(h, bytes) ==
  IF bytes = << >> THEN h
  ELSE FnvFrom(FnvRound(h, Head(bytes)), Tail(bytes))

Sum32(key) == FnvFrom([hi |-> FnvOffsetHi, lo |-> FnvOffsetLo], key)

\* (faulty variant) the low word of the hash is not masked
ShardIndexUnmasked(key, mask) == Sum32(key).lo

\* idx := h.Sum32() & c.mask, the mask being a 32-bit word
ShardIndex(key, mask) ==
  LET h == Sum32(key)
  IN  BitAnd(h.hi, mask \div Limb, 16) * Limb + BitAnd(h.lo, mask % Limb, 16)


(***************************************************************************)
(* State.                                                                  *)
(***************************************************************************)
VARIABLES
  args,      \* the arguments of New: shardCount, maxItems, ttl, cleanupInterval
  newpc,     \* position of New: "validate", "round", "build", "done"
  sc,        \* New's local sc, the rounded shard count
  newErr,    \* the error New returned ("" is nil)
  c,         \* the *OrderCache New returned (isNil for nil) and its fields
  shards,    \* c.shards: index -> [items, lru]
  ents,      \* the orderEntry objects, by reference
  mu,        \* each shard's RWMutex: the writer and the readers holding it
  task,      \* the callers: position and locals of the operation in progress
  calls,     \* Sets and Gets the callers may still start
  reaper,    \* the cleaner goroutine: position and locals of evictExpired
  cleanupStarted, \* c.cleanupStarted (sync.Once) has run
  tickCh,    \* ticks waiting in ticker.C (capacity 1)
  tickerNext,\* time of the ticker's next tick
  stopCh,    \* c.stopCh: "open" or "closed"
  closer,    \* the task that calls Close: calls made, and whether it panicked
  clock,     \* time.Now()
  heap,      \* the backing arrays of the orders' Items slices, by reference
  hist,      \* history of the behaviour, read only by the properties
  run,       \* run(): position, deferred calls, returned error, its pool
  ctx,       \* run's context: "live" or "canceled"
  tries,     \* NewClient and its DoWithTries: position and locals
  db,        \* the orders table: the orders stored
  consumer,  \* the consumer goroutine: position, message, decoded order
  handler,   \* the /order handler: position, request, response
  sig,       \* the signal goroutine and sigCh
  http       \* the http.Server: "new", "serving" or "shutdown"

cacheVars == <<shards, ents, mu>>
newVars == <<args, newpc, sc, newErr, c>>
reaperVars == <<reaper, cleanupStarted, tickCh, tickerNext>>
vars == <<args, newpc, sc, newErr, c, shards, ents, mu, task, calls, reaper,
          cleanupStarted, tickCh, tickerNext, stopCh, closer, clock, heap,
          hist, run, ctx, tries, db, consumer, handler, sig, http>>
srvVars == <<run, ctx, tries, db, consumer, handler, sig, http>>

Tasks == 1 .. NumTasks
NoTask == 0
NoEnt == 0
\* entry objects: one per key held, one per task that keeps a reference to an
\* entry already removed, and one being created
EntIds == 1 .. (Cardinality(Keys) + NumTasks + 1)

EmptyMap == [k \in {} |-> NoEnt]
MapPut(m, k, v) == [x \in (DOMAIN m) \cup {k} |-> IF x = k THEN v ELSE m[x]]
MapDel(m, k) == [x \in (DOMAIN m) \ {k} |-> m[x]]

NilCache == [isNil |-> TRUE, mask |-> 0, perShardCap |-> 0, ttl |-> 0,
             cleanupEvery |-> 0]
FreeEnt == [key |-> << >>, value |-> ZeroOrder, createdAt |-> 0]
IdleTask == [pc |-> "idle", op |-> "none", o |-> ZeroOrder, id |-> << >>,
             s |-> 0, now |-> 0, ent |-> NoEnt, val |-> ZeroOrder,
             path |-> "none", found |-> FALSE, list |-> << >>]
NoReaper == [pc |-> "none", now |-> 0, idx |-> 0]
FreeMutex == [w |-> NoTask, r |-> {}]
\* the reaper's identity as a lock holder
ReaperId == NumTasks + 1

(***************************************************************************)
(* New (cache.go 41-91).                                                   *)
(***************************************************************************)
\* the validation chain of New: the error message, or "" when all pass
NewValidation(a) ==
  IF a.shardCount <= 0 THEN "shardCount must be > 0"
  ELSE IF a.maxItems < 0 THEN "maxItems must be >= 0"
  ELSE IF a.ttl < 0 THEN "ttl must be >= 0"
  ELSE IF a.cleanupInterval < 0 THEN "cleanupInterval must be >= 0"
  ELSE IF a.maxItems > 0 /\ a.maxItems < a.shardCount
       THEN "maxItems must be >= shardCount (or 0 for unlimited)"
  ELSE ""

NewValidate ==
  /\ newpc = "validate"
  /\ LET e == NewValidation(args)
     IN  /\ newErr' = e
         /\ newpc' = IF e = "" THEN "round" ELSE "done"
  /\ UNCHANGED <<args, sc, c, shards, ents, mu, task, calls, reaper,
                 cleanupStarted, tickCh, tickerNext, stopCh, closer, clock>>

\* for sc < shardCount { sc <<= 1 }
NewRound ==
  /\ newpc = "round"
  /\ IF sc < args.shardCount
       THEN sc' = Shl1(sc) /\ newpc' = newpc
       ELSE sc' = sc /\ newpc' = "build"
  /\ UNCHANGED <<args, newErr, c, shards, ents, mu, task, calls, reaper,
                 cleanupStarted, tickCh, tickerNext, stopCh, closer, clock>>

\* (faulty variant) a quotient of 0 stays 0
PerShardCapOfQuotient(maxItems, n) == IF maxItems > 0 THEN maxItems \div n ELSE 0

\* per := maxItems / sc; if per == 0 { per = 1 }
PerShardCapOf(maxItems, n) ==
  IF maxItems > 0
    THEN (IF maxItems \div n = 0 THEN 1 ELSE maxItems \div n)
    ELSE 0

\* (faulty variant) the default applies without a ttl too
CleanupEveryOfAnyTtl(ttl, cleanupInterval) ==
  IF cleanupInterval <= 0 THEN Minute ELSE cleanupInterval

\* if c.ttl > 0 && c.cleanupEvery <= 0 { c.cleanupEvery = time.Minute }
CleanupEveryOf(ttl, cleanupInterval) ==
  IF ttl > 0 /\ cleanupInterval <= 0 THEN Minute ELSE cleanupInterval

\* if c.ttl > 0 || c.perShardCap > 0 { c.startCleaner() }
CallsStartCleaner(cc) == cc.ttl > 0 \/ cc.perShardCap > 0

\* startCleaner: the goroutine is launched unless cleanupEvery <= 0
LaunchesReaper(cc) == cc.cleanupEvery > 0

NewBuild ==
  /\ newpc = "build"
  /\ LET cc == [isNil |-> FALSE,
                mask |-> sc - 1,
                perShardCap |-> PerShardCapOf(args.maxItems, sc),
                ttl |-> args.ttl,
                cleanupEvery |-> CleanupEveryOf(args.ttl, args.cleanupInterval)]
     IN  /\ c' = cc
         /\ shards' = [i \in 0 .. (sc - 1) |-> [items |-> EmptyMap, lru |-> << >>]]
         /\ mu' = [i \in 0 .. (sc - 1) |-> FreeMutex]
         /\ cleanupStarted' = CallsStartCleaner(cc)
         /\ IF CallsStartCleaner(cc) /\ LaunchesReaper(cc)
              THEN /\ reaper' = [NoReaper EXCEPT !.pc = "select"]
                   /\ tickerNext' = clock + cc.cleanupEvery
              ELSE UNCHANGED <<reaper, tickerNext>>
  /\ newpc' = "done"
  /\ UNCHANGED <<args, sc, newErr, ents, task, calls, tickCh, stopCh, closer,
                 clock>>

\* the history kept for the properties: per key the last Set that returned;
\* per task in a Get, whether no Set of its key ran during it and the results
\* an atomic lookup could have given during it; per task, its last Set while
\* nothing else has touched the shard since; the keys in the order of their
\* last touch; what the insert of a Set in progress removed; the cache and the
\* clock readings of a LoadFromSlice in progress; whether Close found a sweep
\* in progress; per key the elements of the Items slice of the order last Set,
\* as they were when that Set returned; per task in a Get, the values the map
\* has held under its key since the call; the entries the last sweep found in
\* the shard, front to back, and the sweep's timestamp
NoSet == [at |-> -1, val |-> ZeroOrder]
NoGet == [quiet |-> FALSE, lin |-> {}, was |-> FALSE]
NoLast == [o |-> ZeroOrder, now |-> 0, ok |-> FALSE, full |-> FALSE]
NoLoad == [active |-> FALSE, before |-> << >>, list |-> << >>, nows |-> << >>]
NoVictim == [overflow |-> FALSE, removed |-> {}, oldest |-> << >>]
NoLife == [midSweep |-> FALSE]
NoDeep == [k \in Keys |-> -1]
NoSeen == [t \in Tasks |-> {}]
NoSweep == [done |-> FALSE, before |-> << >>, now |-> 0]
NoHist == [lastSet |-> [k \in Keys |-> NoSet],
           get |-> [t \in Tasks |-> NoGet],
           last |-> [t \in Tasks |-> NoLast],
           touched |-> << >>,
           victim |-> NoVictim,
           load |-> NoLoad,
           life |-> NoLife,
           deep |-> NoDeep,
           seen |-> NoSeen,
           sweep |-> NoSweep]

InitCache(a, n) ==
  /\ args = a
  /\ newpc = "validate"
  /\ sc = 1
  /\ newErr = ""
  /\ c = NilCache
  /\ shards = << >>
  /\ mu = << >>
  /\ ents = [e \in EntIds |-> FreeEnt]
  /\ task = [t \in Tasks |-> IdleTask]
  /\ calls = n
  /\ reaper = NoReaper
  /\ cleanupStarted = FALSE
  /\ tickCh = 0
  /\ tickerNext = 0
  /\ stopCh = "open"
  /\ closer = [calls |-> 0, panicked |-> FALSE]
  /\ clock = 0
  /\ heap = [p \in Payloads |-> 0]
  /\ hist = NoHist

\* the process before run() has executed anything: nothing deferred, no
\* goroutine launched, no request and no message yet (errors are chains of
\* messages, nil the empty chain)
NoTries == [pc |-> "idle", i |-> 0, err |-> << >>, maxAttempts |-> 0,
            pool |-> "nil", ret |-> << >>, calls |-> 0, nils |-> 0]
NoRun == [pc |-> "config", defers |-> << >>, err |-> << >>, pool |-> "nil"]
NoMsg == [json |-> FALSE, uid |-> << >>, data |-> 0, valid |-> FALSE]
NoConsumer == [pc |-> "none", msg |-> NoMsg, order |-> ZeroOrder, reads |-> 0,
               passed |-> << >>]
NoResponse == [status |-> 0, text |-> "", body |-> << >>]
NoHandler == [pc |-> "idle", id |-> << >>, reqs |-> 0, resp |-> NoResponse]
NoSig == [pc |-> "none", ch |-> 0]

InitServer(d) ==
  /\ run = NoRun
  /\ ctx = "live"
  /\ tries = NoTries
  /\ db = d
  /\ consumer = NoConsumer
  /\ handler = NoHandler
  /\ sig = NoSig
  /\ http = "new"

\* the cache on its own: the server process takes no step
InitWith(a, n) == InitCache(a, n) /\ InitServer({})

NewArgs(n, m, t, i) ==
  [shardCount |-> n, maxItems |-> m, ttl |-> t, cleanupInterval |-> i]

\* arguments of New for the construction-only specification: invalid,
\* ordinary, and shard counts near the top of the integer range
NewShardCounts == {-1, 0, 1, 2, 3, 4, 5, Pow2(IntBits - 2),
                   Pow2(IntBits - 2) + 1, MaxInt}
NewMaxItems == {-1, 0, 1, 2, 3, 4, 7, 8, MaxInt}
NewTtls == {-1, 0, 2}
NewIntervals == {-1, 0, 1}

InitNew ==
  \E n \in NewShardCounts, m \in NewMaxItems, t \in NewTtls, i \in NewIntervals :
    InitWith(NewArgs(n, m, t, i), 0)

(***************************************************************************)
(* container/list and the shard's map, on entry references.                *)
(***************************************************************************)
InList(l, e) == \E i \in 1 .. Len(l) : l[i] = e

\* l.Remove(e): only an element of l is removed
ListRemove(l, e) == SelectSeq(l, LAMBDA x : x # e)

\* (faulty variant) the list stays as it is
MoveToBackNone(l, e) == l

\* l.MoveToBack(e): nothing when e is no element of l or already the back
MoveToBack(l, e) ==
  IF ~InList(l, e) \/ l[Len(l)] = e THEN l ELSE Append(ListRemove(l, e), e)

\* l.PushBack(v)
PushBack(l, e) == Append(l, e)

\* c.ttl > 0 && now.Sub(createdAt) > c.ttl
Expired(now, createdAt) == c.ttl > 0 /\ now - createdAt > c.ttl

\* (faulty variant) the entry leaves the list and stays in the map
removeEntryLockedListOnly(sh, e) == [sh EXCEPT !.lru = ListRemove(@, e)]

\* removeEntryLocked: delete(s.items, ent.key); s.lru.Remove(ent.elem)
removeEntryLocked(sh, e) ==
  [items |-> MapDel(sh.items, ents[e].key), lru |-> ListRemove(sh.lru, e)]

\* (faulty variant) nothing is evicted
evictLRULockedNone(sh, n) == sh

\* (faulty variant) the back of the list is evicted instead of the front
evictLRULockedBack(sh, n) ==
  IF n = 0 \/ sh.lru = << >> THEN sh
  ELSE removeEntryLocked(sh, sh.lru[Len(sh.lru)])

\* evictLRULocked(s, n): n times, remove the front entry if there is one
RECURSIVE evictLRULocked(_, _)
evictLRULocked(sh, n) ==
  IF n = 0 \/ sh.lru = << >> THEN sh
  ELSE evictLRULocked(removeEntryLocked(sh, Head(sh.lru)), n - 1)

\* (faulty variant) the sweep removes nothing
sweepLockedNone(sh, now) == sh

\* (faulty variant) every expired entry is removed, wherever it is
sweepLockedAll(sh, now) ==
  LET keep == SelectSeq(sh.lru, LAMBDA e : ~(now - ents[e].createdAt > c.ttl))
  IN  [items |-> [k \in {ents[keep[p]].key : p \in 1 .. Len(keep)} |-> sh.items[k]],
       lru |-> keep]

\* the loop of evictExpired on one shard: remove from the front while expired
RECURSIVE sweepLocked(_, _)
sweepLocked(sh, now) ==
  IF sh.lru = << >> THEN sh
  ELSE IF now - ents[Head(sh.lru)].createdAt > c.ttl
         THEN sweepLocked(removeEntryLocked(sh, Head(sh.lru)), now)
         ELSE sh

\* c.shardFor(key)
shardFor(key) == ShardIndex(key, c.mask)

\* the entry objects still referenced by a shard or by a task's local
Referenced(e, S, T) ==
  \/ \E i \in DOMAIN S :
       \/ InList(S[i].lru, e)
       \/ \E k \in DOMAIN S[i].items : S[i].items[k] = e
  \/ \E t \in Tasks : T[t].ent = e

\* unreferenced objects are reclaimed
Collect(E, S, T) == [e \in EntIds |-> IF Referenced(e, S, T) THEN E[e] ELSE FreeEnt]

\* &orderEntry{...}: a fresh object
NewEnt == CHOOSE e \in EntIds :
            /\ ~Referenced(e, shards, task)
            /\ \A f \in EntIds : f < e => Referenced(f, shards, task)

(***************************************************************************)
(* sync.RWMutex.                                                           *)
(***************************************************************************)
\* (faulty variant) a writer does not wait for the readers
CanLockNoReaders(i) == mu[i].w = NoTask
CanLock(i) == mu[i].w = NoTask /\ mu[i].r = {}
\* (faulty variant) a reader does not wait for the writer
CanRLockAlways(i) == TRUE
CanRLock(i) == mu[i].w = NoTask
\* (faulty variant) one lock for the whole cache
LockAll(i, who) == [j \in DOMAIN mu |-> [mu[j] EXCEPT !.w = who]]
Lock(i, who) == [mu EXCEPT ![i].w = who]
Unlock(i) == [mu EXCEPT ![i].w = NoTask]
RLock(i, who) == [mu EXCEPT ![i].r = @ \cup {who}]
RUnlock(i, who) == [mu EXCEPT ![i].r = @ \ {who}]

\* a cache exists and the process has not died
Running == newpc = "done" /\ ~c.isNil /\ ~closer.panicked
CanCall(t) == Running /\ task[t].pc = "idle" /\ calls > 0

(***************************************************************************)
(* Set (cache.go 126-150).                                                 *)
(***************************************************************************)
\* s := c.shardFor(o.OrderUid); now := time.Now()
EnterSet(tk, o) ==
  [tk EXCEPT !.pc = "set_lock", !.o = o, !.s = shardFor(o.OrderUid),
             !.now = clock, !.ent = NoEnt]

CallSet(t, o) ==
  /\ CanCall(t)
  /\ task' = [task EXCEPT ![t] = EnterSet([IdleTask EXCEPT !.op = "Set"], o)]
  /\ calls' = calls - 1
  /\ UNCHANGED <<newVars, cacheVars, reaperVars, stopCh, closer, clock>>

\* s.mu.Lock(); then the update of an existing entry (130-135), or the new
\* entry and its PushBack (139-144)
SetLock(t) ==
  LET tk == task[t]
      sh == shards[tk.s]
      k  == tk.o.OrderUid
  IN  /\ Running /\ tk.pc = "set_lock" /\ CanLock(tk.s)
      /\ mu' = Lock(tk.s, t)
      /\ IF k \in DOMAIN sh.items
           THEN LET e == sh.items[k]
                IN  /\ ents' = [ents EXCEPT
                                  ![e].value = tk.o,
                                  ![e].createdAt = IF c.ttl > 0 THEN tk.now ELSE @]
                    /\ shards' = [shards EXCEPT ![tk.s].lru = MoveToBack(@, e)]
                    /\ task' = [task EXCEPT ![t].pc = "set_unlock", ![t].ent = e]
           ELSE LET e == NewEnt
                IN  /\ ents' = [ents EXCEPT
                                  ![e] = [key |-> k, value |-> tk.o,
                                          createdAt |-> tk.now]]
                    /\ shards' = [shards EXCEPT ![tk.s].lru = PushBack(@, e)]
                    /\ task' = [task EXCEPT ![t].pc = "set_insert", ![t].ent = e]
      /\ UNCHANGED <<newVars, calls, reaperVars, stopCh, closer, clock>>

\* (faulty variant) a capacity of 0 is a bound like any other
OverCapacityAlways(sh) == Len(sh.lru) > c.perShardCap

\* if c.perShardCap > 0 && s.lru.Len() > c.perShardCap
OverCapacity(sh) == c.perShardCap > 0 /\ Len(sh.lru) > c.perShardCap

\* s.items[o.OrderUid] = ent; the capacity check and evictLRULocked(s, 1)
SetInsert(t) ==
  LET tk == task[t]
      sh == shards[tk.s]
      ins == [sh EXCEPT !.items = MapPut(@, tk.o.OrderUid, tk.ent)]
      out == IF OverCapacity(ins) THEN evictLRULocked(ins, 1) ELSE ins
      S == [shards EXCEPT ![tk.s] = out]
      T == [task EXCEPT ![t].pc = "set_unlock"]
  IN  /\ Running /\ tk.pc = "set_insert"
      /\ shards' = S
      /\ task' = T
      /\ ents' = Collect(ents, S, T)
      /\ UNCHANGED <<newVars, mu, calls, reaperVars, stopCh, closer, clock>>

\* (faulty variant) Set returns with the lock held
SetUnlockKept(t) ==
  LET tk == task[t]
      T == IF tk.op = "LoadFromSlice" /\ Len(tk.list) > 1
             THEN [task EXCEPT ![t] =
                     [IdleTask EXCEPT !.op = tk.op, !.pc = "load_next",
                                      !.list = Tail(tk.list)]]
             ELSE [task EXCEPT ![t] = IdleTask]
  IN  /\ Running /\ tk.pc = "set_unlock"
      /\ task' = T
      /\ ents' = Collect(ents, shards, T)
      /\ UNCHANGED <<newVars, shards, mu, calls, reaperVars, stopCh, closer, clock>>

\* s.mu.Unlock() and the return; inside LoadFromSlice, on to the next element
SetUnlock(t) ==
  LET tk == task[t]
      T == IF tk.op = "LoadFromSlice" /\ Len(tk.list) > 1
             THEN [task EXCEPT ![t] =
                     [IdleTask EXCEPT !.op = tk.op, !.pc = "load_next",
                                      !.list = Tail(tk.list)]]
             ELSE [task EXCEPT ![t] = IdleTask]
  IN  /\ Running /\ tk.pc = "set_unlock"
      /\ mu' = Unlock(tk.s)
      /\ task' = T
      /\ ents' = Collect(ents, shards, T)
      /\ UNCHANGED <<newVars, shards, calls, reaperVars, stopCh, closer, clock>>

(***************************************************************************)
(* LoadFromSlice (cache.go 186-190).                                       *)
(***************************************************************************)
\* (faulty variant) the loop passes the last element
LoadElementLast(list) == list[Len(list)]

\* the element the loop passes to Set next
LoadElement(list) == Head(list)

CallLoad(t, list) ==
  /\ CanCall(t) /\ calls >= Len(list)
  /\ task' = [task EXCEPT ![t] =
       IF list = << >>
         THEN IdleTask
         ELSE EnterSet([IdleTask EXCEPT !.op = "LoadFromSlice", !.list = list],
                       LoadElement(list))]
  /\ calls' = calls - Max(1, Len(list))
  /\ UNCHANGED <<newVars, cacheVars, reaperVars, stopCh, closer, clock>>

LoadNext(t) ==
  /\ Running /\ task[t].pc = "load_next"
  /\ task' = [task EXCEPT ![t] = EnterSet(@, LoadElement(task[t].list))]
  /\ UNCHANGED <<newVars, cacheVars, calls, reaperVars, stopCh, closer, clock>>

(***************************************************************************)
(* Get (cache.go 153-183).                                                 *)
(***************************************************************************)
\* s := c.shardFor(id); now := time.Now()
CallGet(t, id) ==
  /\ CanCall(t)
  /\ task' = [task EXCEPT ![t] =
       [IdleTask EXCEPT !.op = "Get", !.pc = "get_rlock", !.id = id,
                        !.s = shardFor(id), !.now = clock]]
  /\ calls' = calls - 1
  /\ UNCHANGED <<newVars, cacheVars, reaperVars, stopCh, closer, clock>>

\* s.mu.RLock(); ent, ok := s.items[id]; the expiry test of line 162; on the
\* live path val := ent.value (175)
GetRLock(t) ==
  LET tk == task[t]
      sh == shards[tk.s]
      ok == tk.id \in DOMAIN sh.items
      e  == IF ok THEN sh.items[tk.id] ELSE NoEnt
  IN  /\ Running /\ tk.pc = "get_rlock" /\ CanRLock(tk.s)
      /\ mu' = RLock(tk.s, t)
      /\ task' = [task EXCEPT ![t] =
           IF ~ok THEN [tk EXCEPT !.pc = "get_runlock", !.path = "miss"]
           ELSE IF Expired(tk.now, ents[e].createdAt)
             THEN [tk EXCEPT !.pc = "get_runlock", !.path = "expired", !.ent = e]
             ELSE [tk EXCEPT !.pc = "get_runlock", !.path = "live", !.ent = e,
                             !.val = ents[e].value]]
      /\ UNCHANGED <<newVars, shards, ents, calls, reaperVars, stopCh,
                     closer, clock>>

\* (faulty variant) the read lock is kept
GetRUnlockKept(t) ==
  LET tk == task[t]
  IN  /\ Running /\ tk.pc = "get_runlock"
      /\ task' = [task EXCEPT ![t] =
           IF tk.path = "miss"
             THEN IdleTask
             ELSE [tk EXCEPT !.pc = "get_lock"]]
      /\ UNCHANGED <<newVars, shards, ents, mu, calls, reaperVars, stopCh,
                     closer, clock>>

\* s.mu.RUnlock(); on the miss path return orders.Order{}, false (val and
\* found still hold the zero values)
GetRUnlock(t) ==
  LET tk == task[t]
  IN  /\ Running /\ tk.pc = "get_runlock"
      /\ mu' = RUnlock(tk.s, t)
      /\ task' = [task EXCEPT ![t] =
           IF tk.path = "miss"
             THEN IdleTask
             ELSE [tk EXCEPT !.pc = "get_lock"]]
      /\ UNCHANGED <<newVars, shards, ents, calls, reaperVars, stopCh,
                     closer, clock>>

\* the entry whose recency position the expired path moves and whose value it
\* returns when the re-check does not remove (170-171): the read phase's ent
ExpiredPathEntry(tk, sh) == tk.ent

\* (faulty variant) an entry found expired again is reported and kept
GetExpiredWriteKeep(tk, sh) ==
  IF tk.id \in DOMAIN sh.items /\ Expired(tk.now, ents[sh.items[tk.id]].createdAt)
    THEN [sh |-> sh, val |-> ZeroOrder, found |-> FALSE]
    ELSE [sh |-> [sh EXCEPT !.lru = MoveToBack(@, tk.ent)],
          val |-> ents[tk.ent].value, found |-> TRUE]

\* the write phase of the expired path (164-173): [shard, val, found]
GetExpiredWrite(tk, sh) ==
  IF tk.id \in DOMAIN sh.items /\ Expired(tk.now, ents[sh.items[tk.id]].createdAt)
    THEN [sh |-> removeEntryLocked(sh, sh.items[tk.id]),
          val |-> ZeroOrder, found |-> FALSE]
    ELSE LET e == ExpiredPathEntry(tk, sh)
         IN  [sh |-> [sh EXCEPT !.lru = MoveToBack(@, e)],
              val |-> ents[e].value, found |-> TRUE]

\* (faulty variant) the live path leaves the recency list as it is
GetLiveWriteNoTouch(tk, sh) == [sh |-> sh, val |-> tk.val, found |-> TRUE]

\* the write phase of the live path (177-182): [shard, val, found]
GetLiveWrite(tk, sh) ==
  [sh |-> IF tk.id \in DOMAIN sh.items
            THEN [sh EXCEPT !.lru = MoveToBack(@, sh.items[tk.id])]
            ELSE sh,
   val |-> tk.val, found |-> TRUE]

\* s.mu.Lock() and the write phase
GetLock(t) ==
  LET tk == task[t]
      sh == shards[tk.s]
      w  == IF tk.path = "expired" THEN GetExpiredWrite(tk, sh)
                                   ELSE GetLiveWrite(tk, sh)
      S  == [shards EXCEPT ![tk.s] = w.sh]
      T  == [task EXCEPT ![t].pc = "get_unlock", ![t].val = w.val,
                         ![t].found = w.found]
  IN  /\ Running /\ tk.pc = "get_lock" /\ CanLock(tk.s)
      /\ mu' = Lock(tk.s, t)
      /\ shards' = S
      /\ task' = T
      /\ ents' = Collect(ents, S, T)
      /\ UNCHANGED <<newVars, calls, reaperVars, stopCh, closer, clock>>

\* s.mu.Unlock(); return val, found
GetUnlock(t) ==
  LET tk == task[t]
      T == [task EXCEPT ![t] = IdleTask]
  IN  /\ Running /\ tk.pc = "get_unlock"
      /\ mu' = Unlock(tk.s)
      /\ task' = T
      /\ ents' = Collect(ents, shards, T)
      /\ UNCHANGED <<newVars, shards, calls, reaperVars, stopCh, closer, clock>>

(***************************************************************************)
(* The cleaner goroutine (cache.go 94-112), evictExpired (193-212) and     *)
(* Close (115).                                                            *)
(***************************************************************************)
ReaperAlive == reaper.pc \notin {"none", "stopped"}

\* (faulty variant) evictExpired sweeps without looking at the ttl
ReaperTickSweeps ==
  /\ Running /\ reaper.pc = "select" /\ tickCh = 1
  /\ tickCh' = 0
  /\ reaper' = [pc |-> "lock", now |-> clock, idx |-> 0]
  /\ UNCHANGED <<newVars, cacheVars, task, calls, cleanupStarted,
                 tickerNext, stopCh, closer, clock>>

\* case <-ticker.C: c.evictExpired(), up to the first shard's lock
ReaperTick ==
  /\ Running /\ reaper.pc = "select" /\ tickCh = 1
  /\ tickCh' = 0
  /\ reaper' = IF c.ttl <= 0 THEN reaper
               ELSE [pc |-> "lock", now |-> clock, idx |-> 0]
  /\ UNCHANGED <<newVars, cacheVars, task, calls, cleanupStarted,
                 tickerNext, stopCh, closer, clock>>

\* (faulty variant) the stop signal is received and the loop goes on
ReaperStopIgnored ==
  /\ Running /\ reaper.pc = "select" /\ stopCh = "closed"
  /\ UNCHANGED <<newVars, cacheVars, task, calls, reaperVars, stopCh, closer,
                 clock>>

\* case <-c.stopCh: return
ReaperStop ==
  /\ Running /\ reaper.pc = "select" /\ stopCh = "closed"
  /\ reaper' = [NoReaper EXCEPT !.pc = "stopped"]
  /\ UNCHANGED <<newVars, cacheVars, task, calls, cleanupStarted, tickCh,
                 tickerNext, stopCh, closer, clock>>

\* s.mu.Lock() and the loop over the shard's list
ReaperLock ==
  LET S == [shards EXCEPT ![reaper.idx] = sweepLocked(@, reaper.now)]
  IN  /\ Running /\ reaper.pc = "lock" /\ CanLock(reaper.idx)
      /\ mu' = Lock(reaper.idx, ReaperId)
      /\ shards' = S
      /\ ents' = Collect(ents, S, task)
      /\ reaper' = [reaper EXCEPT !.pc = "unlock"]
      /\ UNCHANGED <<newVars, task, calls, cleanupStarted, tickCh,
                     tickerNext, stopCh, closer, clock>>

\* (faulty variant) the sweep goes on to the next shard with the lock held
ReaperUnlockKept ==
  /\ Running /\ reaper.pc = "unlock"
  /\ reaper' = IF reaper.idx + 1 = Cardinality(DOMAIN shards)
                 THEN [NoReaper EXCEPT !.pc = "select"]
                 ELSE [reaper EXCEPT !.pc = "lock", !.idx = @ + 1]
  /\ UNCHANGED <<newVars, shards, ents, mu, task, calls, cleanupStarted, tickCh,
                 tickerNext, stopCh, closer, clock>>

\* (faulty variant) the sweep ends after its first shard
ReaperUnlockFirstOnly ==
  /\ Running /\ reaper.pc = "unlock"
  /\ mu' = Unlock(reaper.idx)
  /\ reaper' = [NoReaper EXCEPT !.pc = "select"]
  /\ UNCHANGED <<newVars, shards, ents, task, calls, cleanupStarted, tickCh,
                 tickerNext, stopCh, closer, clock>>

\* s.mu.Unlock(); the next shard, or back to the select
ReaperUnlock ==
  /\ Running /\ reaper.pc = "unlock"
  /\ mu' = Unlock(reaper.idx)
  /\ reaper' = IF reaper.idx + 1 = Cardinality(DOMAIN shards)
                 THEN [NoReaper EXCEPT !.pc = "select"]
                 ELSE [reaper EXCEPT !.pc = "lock", !.idx = @ + 1]
  /\ UNCHANGED <<newVars, shards, ents, task, calls, cleanupStarted, tickCh,
                 tickerNext, stopCh, closer, clock>>

\* (faulty variant) a second Close does nothing
CloseOnce ==
  /\ Running /\ closer.calls < MaxCloses
  /\ closer' = [closer EXCEPT !.calls = @ + 1]
  /\ stopCh' = "closed"
  /\ UNCHANGED <<newVars, cacheVars, task, calls, reaperVars, clock>>

\* close(c.stopCh): closing a closed channel panics
Close ==
  /\ Running /\ closer.calls < MaxCloses
  /\ IF stopCh = "closed"
       THEN closer' = [calls |-> closer.calls + 1, panicked |-> TRUE] /\ stopCh' = stopCh
       ELSE closer' = [closer EXCEPT !.calls = @ + 1] /\ stopCh' = "closed"
  /\ UNCHANGED <<newVars, cacheVars, task, calls, reaperVars, clock>>

\* time passes; a ticker of a live cleaner whose period has elapsed sends its
\* tick (ticker.C holds one tick, a second one is dropped)
AdvanceClock ==
  /\ Running /\ clock < MaxTime
  /\ clock' = clock + 1
  /\ IF ReaperAlive /\ clock + 1 >= tickerNext
       THEN tickCh' = 1 /\ tickerNext' = tickerNext + c.cleanupEvery
       ELSE UNCHANGED <<tickCh, tickerNext>>
  /\ UNCHANGED <<newVars, cacheVars, task, calls, reaper, cleanupStarted, stopCh,
                 closer>>

(***************************************************************************)
(* The caller's own code: an order is a struct whose Items field is a      *)
(* slice; data stands for the slice header, heap[data] for the elements    *)
(* of its backing array.  Set and Get copy the struct (cache.go 131, 141,  *)
(* 171, 175), and with it the header.                                      *)
(***************************************************************************)
Elements == {0, 1}

\* the caller assigns to v.Items[i] of an order v it has passed to Set or
\* received from Get, between two calls
CallerWrites(a, x) ==
  /\ Running /\ \A t \in Tasks : task[t].pc = "idle"
  /\ heap[a] # x
  /\ heap' = [heap EXCEPT ![a] = x]
  /\ UNCHANGED <<newVars, cacheVars, task, calls, reaperVars, stopCh, closer,
                 clock>>

\* the elements of the Items slice of order o
ItemsOf(o) == heap[o.data]

(***************************************************************************)
(* The next-state relation and the specifications.                         *)
(***************************************************************************)
OrdersOf(K) == {o \in Orders : o.OrderUid \in K}

(***************************************************************************)
(* History.  The actions above are the code; a specification conjoins each *)
(* with the record of what the properties need to know about the past.     *)
(***************************************************************************)
SetInFlight(T, u, k) ==
  T[u].pc \in {"set_lock", "set_insert", "set_unlock"} /\ T[u].o.OrderUid = k

\* the result has been computed and only the unlock and return remain
GetDecided(tk) ==
  tk.op = "Get" /\ (tk.pc = "get_unlock" \/ (tk.pc = "get_runlock" /\ tk.path = "miss"))

Result(found, val) == [found |-> found, val |-> val]

\* what an atomic lookup of key k on shard contents sh gives at time now:
\* the value when k is present and not expired, otherwise not found
Lookup(sh, E, k, now) ==
  IF k \in DOMAIN sh.items /\ ~Expired(now, E[sh.items[k]].createdAt)
    THEN Result(TRUE, E[sh.items[k]].value)
    ELSE Result(FALSE, ZeroOrder)

\* the tasks whose Set returns in this step
SetReturns == {t \in Tasks : task[t].pc = "set_unlock" /\ task'[t].pc # "set_unlock"}

LastSetNext ==
  [k \in Keys |->
     IF \E t \in SetReturns : task[t].o.OrderUid = k
       THEN [at |-> clock,
             val |-> task[CHOOSE t \in SetReturns : task[t].o.OrderUid = k].o]
       ELSE hist.lastSet[k]]

\* the lookups admitted for task t's Get in the new state: taken when no other
\* holder is inside a write, at the clock's time and at the Get's own now
GetNext(t) ==
  LET tk == task'[t]
  IN  IF tk.op # "Get" THEN NoGet
      ELSE LET old == IF task[t].op = "Get" THEN hist.get[t]
                      ELSE [quiet |-> TRUE, lin |-> {}, was |-> FALSE]
               sh  == shards'[tk.s]
           IN  [quiet |-> old.quiet /\ ~\E u \in Tasks : SetInFlight(task', u, tk.id),
                lin |-> old.lin \cup
                          (IF mu'[tk.s].w \in {NoTask, t}
                             THEN {Lookup(sh, ents', tk.id, clock'),
                                   Lookup(sh, ents', tk.id, tk.now)}
                             ELSE {}),
                was |-> FALSE]

\* task t's last Set, from the step that takes the shard's lock for it, kept
\* while t goes on to return from it and to Get the same key and nothing else
\* takes, releases or changes the shard meanwhile; full tells that the key was
\* new to a shard that held its capacity
LastNext(t) ==
  LET old == hist.last[t]
      tk  == task[t]
      s   == shardFor(old.o.OrderUid)
  IN  IF tk.pc = "set_lock" /\ task'[t].pc # "set_lock"
        THEN [o |-> tk.o, now |-> tk.now, ok |-> TRUE,
              full |-> /\ c.perShardCap > 0
                       /\ tk.o.OrderUid \notin DOMAIN shards[tk.s].items
                       /\ Len(shards[tk.s].lru) >= c.perShardCap]
      ELSE IF ~old.ok THEN NoLast
      ELSE IF task'[t] = tk
        THEN (IF mu'[s] # mu[s] \/ shards'[s] # shards[s] THEN NoLast ELSE old)
      ELSE IF task'[t].pc = "load_next" THEN NoLast
      ELSE IF tk.pc = "idle" /\ ~(task'[t].op = "Get" /\ task'[t].id = old.o.OrderUid)
        THEN NoLast
      ELSE IF tk.op = "Get" /\ task'[t].pc = "idle" THEN NoLast
      ELSE old

\* the history of the concurrent specification: when each key's last Set
\* returned, and the Gets in progress
LastSetAt == [k \in Keys |-> [at |-> LastSetNext[k].at, val |-> ZeroOrder]]
Track ==
  hist' = [hist EXCEPT !.lastSet = LastSetAt,
                       !.get = [t \in Tasks |-> GetNext(t)]]

\* the history of the Set-then-Get specification
TrackPair == hist' = [hist EXCEPT !.last = [t \in Tasks |-> LastNext(t)]]

\* whether the key of task t's Get had been Set when the Get was called
WasNext(t) ==
  IF task'[t].op # "Get" THEN FALSE
  ELSE IF task[t].op = "Get" THEN hist.get[t].was
  ELSE hist.lastSet[task'[t].id].at >= 0

\* the history of the unbounded specification: each key's last Set, whether
\* a Set ran during a Get in progress and whether the key had been Set before
TrackKeep ==
  hist' = [hist EXCEPT !.lastSet = LastSetNext,
                       !.get = [t \in Tasks |->
                                  [quiet |-> GetNext(t).quiet, lin |-> {},
                                   was |-> WasNext(t)]]]

\* the keys of a shard's entries, front to back
LruKeys(sh, E) == [i \in 1 .. Len(sh.lru) |-> E[sh.lru[i]].key]

\* a shard's contents without the references: the entries in list order and
\* the entry each key maps to
AbsShard(sh, E) ==
  [lru |-> [i \in 1 .. Len(sh.lru) |-> E[sh.lru[i]]],
   items |-> [k \in DOMAIN sh.items |-> E[sh.items[k]]]]
AbsCache(S, E) == [i \in DOMAIN S |-> AbsShard(S[i], E)]

\* Set run alone, on a cache without the references: the existing entry takes
\* the value (and with a ttl the time) and moves to the back; a new entry goes
\* to the back and, above the capacity, the front entry leaves
AbsSet(A, o, now) ==
  LET s  == shardFor(o.OrderUid)
      sh == A[s]
      k  == o.OrderUid
  IN  IF k \in DOMAIN sh.items
        THEN LET e == [sh.items[k] EXCEPT
                         !.value = o,
                         !.createdAt = IF c.ttl > 0 THEN now ELSE @]
             IN  [A EXCEPT ![s] =
                    [lru |-> Append(SelectSeq(sh.lru, LAMBDA x : x.key # k), e),
                     items |-> [sh.items EXCEPT ![k] = e]]]
        ELSE LET e == [key |-> k, value |-> o, createdAt |-> now]
                 l == Append(sh.lru, e)
                 m == MapPut(sh.items, k, e)
             IN  [A EXCEPT ![s] =
                    IF c.perShardCap > 0 /\ Len(l) > c.perShardCap
                      THEN [lru |-> Tail(l), items |-> MapDel(m, Head(l).key)]
                      ELSE [lru |-> l, items |-> m]]

\* Set on each of the first n elements of list, in order, at the times nows
RECURSIVE AbsSets(_, _, _, _)
AbsSets(A, list, nows, n) ==
  IF n = 0 THEN A
  ELSE AbsSet(AbsSets(A, list, nows, n - 1), list[n], nows[n])

SeqRemove(q, x) == SelectSeq(q, LAMBDA y : y # x)
Held(S) == UNION {DOMAIN S[i].items : i \in DOMAIN S}

\* a touch is a Set that returns or a Get that returns found; the touched
\* keys that are still held, the oldest touch first, each with what touched it
TouchedNext ==
  LET sets == {[k |-> task[t].o.OrderUid, by |-> "Set"] : t \in SetReturns}
      gets == {[k |-> task[t].id, by |-> "Get"] :
                 t \in {u \in Tasks : /\ task[u].pc = "get_unlock"
                                      /\ task'[u].pc = "idle"
                                      /\ task[u].found}}
      ts   == sets \cup gets
      q    == IF ts = {} THEN hist.touched
              ELSE LET x == CHOOSE y \in ts : TRUE
                   IN  Append(SelectSeq(hist.touched, LAMBDA y : y.k # x.k), x)
  IN  SelectSeq(q, LAMBDA y : y.k \in Held(shards'))

\* what the insert of a new key removed: whether the shard held its capacity
\* before, the keys that left it, and the key held before whose touch is the
\* oldest
VictimNext ==
  LET ins == {t \in Tasks : task[t].pc = "set_insert" /\ task'[t].pc = "set_unlock"}
  IN  IF ins # {}
        THEN LET tk == task[CHOOSE t \in ins : TRUE]
                 before == DOMAIN shards[tk.s].items
                 old == SelectSeq(hist.touched, LAMBDA y : y.k \in before)
             IN  [overflow |-> c.perShardCap > 0
                                 /\ Cardinality(before) + 1 > c.perShardCap,
                  removed |-> (before \cup {tk.o.OrderUid}) \ DOMAIN shards'[tk.s].items,
                  oldest |-> IF old = << >> THEN << >> ELSE Head(old).k]
      ELSE IF SetReturns # {} THEN NoVictim
      ELSE hist.victim

LoadNextHist ==
  LET starts == {t \in Tasks : /\ task'[t].op = "LoadFromSlice"
                               /\ task[t].pc = "idle" /\ task'[t].pc = "set_lock"}
      steps  == {t \in Tasks : task[t].pc = "load_next" /\ task'[t].pc = "set_lock"}
      ends   == {t \in Tasks : task[t].op = "LoadFromSlice" /\ task'[t].pc = "idle"}
  IN  IF starts # {}
        THEN [active |-> TRUE, before |-> AbsCache(shards, ents),
              list |-> task'[CHOOSE t \in starts : TRUE].list, nows |-> <<clock>>]
      ELSE IF steps # {} THEN [hist.load EXCEPT !.nows = Append(@, clock)]
      ELSE IF ends # {} THEN NoLoad
      ELSE hist.load

\* the history of the lifecycle specification: Close was called while the
\* reaper was inside a sweep
TrackLife ==
  hist' = [hist EXCEPT !.life.midSweep =
             @ \/ (/\ stopCh = "open" /\ stopCh' = "closed"
                    /\ reaper.pc \in {"lock", "unlock"})]

\* the history of the aliasing specification: the elements a key's order
\* had when its Set returned
TrackCopy ==
  hist' = [hist EXCEPT !.deep =
             [k \in Keys |->
                IF \E t \in SetReturns : task[t].o.OrderUid = k
                  THEN heap[task[CHOOSE t \in SetReturns :
                                   task[t].o.OrderUid = k].o.data]
                  ELSE @[k]]]

\* the values the map has held under the key of task t's Get in the states
\* since its call
SeenNext(t) ==
  LET tk == task'[t]
  IN  IF tk.op # "Get" THEN {}
      ELSE LET old == IF task[t].op = "Get" THEN hist.seen[t] ELSE {}
               sh  == shards'[tk.s]
           IN  old \cup (IF tk.id \in DOMAIN sh.items
                           THEN {ents'[sh.items[tk.id]].value}
                           ELSE {})

\* the history of the value specification
TrackTorn == hist' = [hist EXCEPT !.seen = [t \in Tasks |-> SeenNext(t)]]

\* what the sweep of a shard found there, recorded when it takes the lock and
\* dropped at the next tick
SweepNext ==
  IF reaper.pc = "lock" /\ reaper'.pc = "unlock"
    THEN [done |-> TRUE,
          before |-> AbsShard(shards[reaper.idx], ents).lru,
          now |-> reaper.now]
  ELSE IF reaper.pc = "select" /\ reaper'.pc # "select" THEN NoSweep
  ELSE hist.sweep

\* the history of the sweep specification
TrackSweep == hist' = [hist EXCEPT !.touched = TouchedNext, !.sweep = SweepNext]

\* the history of the sequential specification
TrackSeq ==
  hist' = [hist EXCEPT !.touched = TouchedNext, !.victim = VictimNext,
                       !.load = LoadNextHist]

Obs(A) == A /\ Track /\ UNCHANGED <<heap, srvVars>>
ObsPair(A) == A /\ TrackPair /\ UNCHANGED <<heap, srvVars>>
ObsKeep(A) == A /\ TrackKeep /\ UNCHANGED <<heap, srvVars>>
ObsSeq(A) == A /\ TrackSeq /\ UNCHANGED <<heap, srvVars>>
ObsLife(A) == A /\ TrackLife /\ UNCHANGED <<heap, srvVars>>
Same(A) == A /\ UNCHANGED <<heap, hist, srvVars>>
ObsCopy(A) == A /\ TrackCopy /\ UNCHANGED srvVars
ObsTorn(A) == A /\ TrackTorn /\ UNCHANGED <<heap, srvVars>>
ObsSweep(A) == A /\ TrackSweep /\ UNCHANGED <<heap, srvVars>>

(***************************************************************************)
(* The specifications.                                                     *)
(***************************************************************************)
\* construction alone
NextNew == Same(NewValidate) \/ Same(NewRound) \/ Same(NewBuild)

SpecNew == InitNew /\ [][NextNew]_vars

\* the concurrent workload: the callers Set, Get and load two keys of one
\* shard that holds one entry, with ttl 1 and the reaper ticking every time
\* unit
SpecConfigs == {NewArgs(1, 1, 1, 1)}
SpecKeys == {KeyA, KeyB}
SpecLists == {<<Order(KeyA, 1), Order(KeyB, 1)>>}

Next ==
  \/ Obs(NewValidate) \/ Obs(NewRound) \/ Obs(NewBuild)
  \/ \E t \in Tasks :
       \/ \E o \in OrdersOf(SpecKeys) : Obs(CallSet(t, o))
       \/ \E id \in SpecKeys : Obs(CallGet(t, id))
       \/ \E l \in SpecLists : Obs(CallLoad(t, l))
       \/ Obs(SetLock(t)) \/ Obs(SetInsert(t)) \/ Obs(SetUnlock(t))
       \/ Obs(LoadNext(t))
       \/ Obs(GetRLock(t)) \/ Obs(GetRUnlock(t))
       \/ Obs(GetLock(t)) \/ Obs(GetUnlock(t))
  \/ Obs(ReaperTick) \/ Obs(ReaperLock) \/ Obs(ReaperUnlock)
  \/ Obs(AdvanceClock)

Init == \E a \in SpecConfigs : InitWith(a, MaxCalls)

Spec == Init /\ [][Next]_vars

\* the same workload, and the same on a cache without ttl, with the history
\* of each task's last Set
PairConfigs == {NewArgs(1, 1, 1, 1), NewArgs(1, 1, 0, 1)}

NextPair ==
  \/ ObsPair(NewValidate) \/ ObsPair(NewRound) \/ ObsPair(NewBuild)
  \/ \E t \in Tasks :
       \/ \E o \in OrdersOf(SpecKeys) : ObsPair(CallSet(t, o))
       \/ \E id \in SpecKeys : ObsPair(CallGet(t, id))
       \/ \E l \in SpecLists : ObsPair(CallLoad(t, l))
       \/ ObsPair(SetLock(t)) \/ ObsPair(SetInsert(t)) \/ ObsPair(SetUnlock(t))
       \/ ObsPair(LoadNext(t))
       \/ ObsPair(GetRLock(t)) \/ ObsPair(GetRUnlock(t))
       \/ ObsPair(GetLock(t)) \/ ObsPair(GetUnlock(t))
  \/ ObsPair(ReaperTick) \/ ObsPair(ReaperLock) \/ ObsPair(ReaperUnlock)
  \/ ObsPair(AdvanceClock)

InitPair == \E a \in PairConfigs : InitWith(a, MaxCalls)

SpecPair == InitPair /\ [][NextPair]_vars

\* the unbounded cache: no capacity and no ttl (New starts no cleaner), two
\* shards, KeyA and KeyC in shard 0 and KeyB in shard 1
KeepConfigs == {NewArgs(2, 0, 0, 0)}
KeepLists == {<<Order(KeyA, 1), Order(KeyB, 1)>>, <<Order(KeyC, 1), Order(KeyC, 2)>>}

NextKeep ==
  \/ ObsKeep(NewValidate) \/ ObsKeep(NewRound) \/ ObsKeep(NewBuild)
  \/ \E t \in Tasks :
       \/ \E o \in OrdersOf(Keys) : ObsKeep(CallSet(t, o))
       \/ \E id \in Keys : ObsKeep(CallGet(t, id))
       \/ \E l \in KeepLists : ObsKeep(CallLoad(t, l))
       \/ ObsKeep(SetLock(t)) \/ ObsKeep(SetInsert(t)) \/ ObsKeep(SetUnlock(t))
       \/ ObsKeep(LoadNext(t))
       \/ ObsKeep(GetRLock(t)) \/ ObsKeep(GetRUnlock(t))
       \/ ObsKeep(GetLock(t)) \/ ObsKeep(GetUnlock(t))
  \/ ObsKeep(AdvanceClock)

InitKeep == \E a \in KeepConfigs : InitWith(a, MaxCalls)

SpecKeep == InitKeep /\ [][NextKeep]_vars

\* the sequential workload: one caller on one shard that holds two entries,
\* three keys, without ttl (no cleaner) or with ttl 1; operations and sweeps
\* do not overlap
SeqConfigs == {NewArgs(1, 2, 0, 0), NewArgs(1, 2, 1, 1)}
SeqLists == {<< >>,
             <<Order(KeyA, 1), Order(KeyB, 1), Order(KeyA, 2), Order(KeyC, 1)>>}
SeqTask == CHOOSE t \in Tasks : \A u \in Tasks : t <= u
CallerIdle == \A t \in Tasks : task[t].pc = "idle"
ReaperIdle == reaper.pc \in {"none", "select", "stopped"}

\* a caller's step while no sweep is in progress, a sweep's start while no
\* operation is
SeqOp(A) == ReaperIdle /\ A /\ TrackSeq /\ UNCHANGED <<heap, srvVars>>
SeqSweep(A) == CallerIdle /\ A /\ TrackSeq /\ UNCHANGED <<heap, srvVars>>

NextSeq ==
  \/ ObsSeq(NewValidate) \/ ObsSeq(NewRound) \/ ObsSeq(NewBuild)
  \/ \E o \in Orders : SeqOp(CallSet(SeqTask, o))
  \/ \E id \in Keys : SeqOp(CallGet(SeqTask, id))
  \/ \E l \in SeqLists : SeqOp(CallLoad(SeqTask, l))
  \/ SeqOp(SetLock(SeqTask)) \/ SeqOp(SetInsert(SeqTask))
  \/ SeqOp(SetUnlock(SeqTask)) \/ SeqOp(LoadNext(SeqTask))
  \/ SeqOp(GetRLock(SeqTask)) \/ SeqOp(GetRUnlock(SeqTask))
  \/ SeqOp(GetLock(SeqTask)) \/ SeqOp(GetUnlock(SeqTask))
  \/ SeqSweep(ReaperTick)
  \/ ObsSeq(ReaperLock) \/ ObsSeq(ReaperUnlock)
  \/ ObsSeq(AdvanceClock)

InitSeq == \E a \in SeqConfigs : InitWith(a, MaxSeqCalls)

SpecSeq == InitSeq /\ [][NextSeq]_vars


\* the lifecycle workload: callers, the reaper and Close calls, on a cache of
\* two shards with ttl 1 and a reaper ticking every time unit, and on a cache
\* of one shard of capacity 1 without ttl, for which New launches no reaper;
\* the keys include the empty key, the slices the empty slice
LifeConfigs == {NewArgs(2, 2, 1, 1), NewArgs(1, 1, 0, 0)}
LifeKeys == {<< >>, KeyA}
LifeOrders == {Order(k, 1) : k \in LifeKeys}
LifeLists == {<< >>, <<Order(KeyA, 1), Order(<< >>, 1)>>}

\* the steps of task t inside a call
TaskStep(t) ==
  \/ ObsLife(SetLock(t)) \/ ObsLife(SetInsert(t)) \/ ObsLife(SetUnlock(t))
  \/ ObsLife(LoadNext(t))
  \/ ObsLife(GetRLock(t)) \/ ObsLife(GetRUnlock(t))
  \/ ObsLife(GetLock(t)) \/ ObsLife(GetUnlock(t))

\* the reaper's select, and the steps of its sweep
ReaperSelect == ObsLife(ReaperTick) \/ ObsLife(ReaperStop)
ReaperSweep == ObsLife(ReaperLock) \/ ObsLife(ReaperUnlock)

NextLife ==
  \/ ObsLife(NewValidate) \/ ObsLife(NewRound) \/ ObsLife(NewBuild)
  \/ \E t \in Tasks :
       \/ \E o \in LifeOrders : ObsLife(CallSet(t, o))
       \/ \E id \in LifeKeys : ObsLife(CallGet(t, id))
       \/ \E l \in LifeLists : ObsLife(CallLoad(t, l))
       \/ ObsLife(SetLock(t)) \/ ObsLife(SetInsert(t)) \/ ObsLife(SetUnlock(t))
       \/ ObsLife(LoadNext(t))
       \/ ObsLife(GetRLock(t)) \/ ObsLife(GetRUnlock(t))
       \/ ObsLife(GetLock(t)) \/ ObsLife(GetUnlock(t))
  \/ ObsLife(ReaperTick) \/ ObsLife(ReaperStop)
  \/ ObsLife(ReaperLock) \/ ObsLife(ReaperUnlock)
  \/ ObsLife(Close)
  \/ ObsLife(AdvanceClock)

InitLife == \E a \in LifeConfigs : InitWith(a, MaxLifeCalls)

\* the scheduler runs every goroutine that can take a step, a lock that is
\* free is granted, and a select with the stop signal ready over and over
\* takes it in the end
FairLife ==
  /\ WF_vars(ObsLife(NewValidate) \/ ObsLife(NewRound) \/ ObsLife(NewBuild))
  /\ \A t \in Tasks : WF_vars(TaskStep(t))
  /\ WF_vars(ReaperSelect)
  /\ WF_vars(ReaperSweep)
  /\ SF_vars(ObsLife(ReaperStop))

SpecLife == InitLife /\ [][NextLife]_vars /\ FairLife

\* the aliasing workload: one caller Sets and Gets orders on an unbounded
\* cache of one shard and, between calls, writes to the elements of the Items
\* slices of its orders
CopyConfigs == {NewArgs(1, 0, 0, 0)}

NextCopy ==
  \/ Same(NewValidate) \/ Same(NewRound) \/ Same(NewBuild)
  \/ \E o \in OrdersOf(SpecKeys) : ObsCopy(CallSet(SeqTask, o) /\ UNCHANGED heap)
  \/ \E id \in SpecKeys : ObsCopy(CallGet(SeqTask, id) /\ UNCHANGED heap)
  \/ ObsCopy(SetLock(SeqTask) /\ UNCHANGED heap)
  \/ ObsCopy(SetInsert(SeqTask) /\ UNCHANGED heap)
  \/ ObsCopy(SetUnlock(SeqTask) /\ UNCHANGED heap)
  \/ ObsCopy(GetRLock(SeqTask) /\ UNCHANGED heap)
  \/ ObsCopy(GetRUnlock(SeqTask) /\ UNCHANGED heap)
  \/ ObsCopy(GetLock(SeqTask) /\ UNCHANGED heap)
  \/ ObsCopy(GetUnlock(SeqTask) /\ UNCHANGED heap)
  \/ \E a \in Payloads, x \in Elements : ObsCopy(CallerWrites(a, x))

InitCopy == \E a \in CopyConfigs : InitWith(a, MaxCalls)

SpecCopy == InitCopy /\ [][NextCopy]_vars

\* the value workload: the callers Set and Get two keys, each with two
\* values, on one shard that holds one entry, with ttl 1 and the reaper
\* ticking every time unit
TornConfigs == {NewArgs(1, 1, 1, 1)}

NextTorn ==
  \/ ObsTorn(NewValidate) \/ ObsTorn(NewRound) \/ ObsTorn(NewBuild)
  \/ \E t \in Tasks :
       \/ \E o \in OrdersOf(SpecKeys) : ObsTorn(CallSet(t, o))
       \/ \E id \in SpecKeys : ObsTorn(CallGet(t, id))
       \/ ObsTorn(SetLock(t)) \/ ObsTorn(SetInsert(t)) \/ ObsTorn(SetUnlock(t))
       \/ ObsTorn(GetRLock(t)) \/ ObsTorn(GetRUnlock(t))
       \/ ObsTorn(GetLock(t)) \/ ObsTorn(GetUnlock(t))
  \/ ObsTorn(ReaperTick) \/ ObsTorn(ReaperLock) \/ ObsTorn(ReaperUnlock)
  \/ ObsTorn(AdvanceClock)

InitTorn == \E a \in TornConfigs : InitWith(a, MaxCalls)

SpecTorn == InitTorn /\ [][NextTorn]_vars

\* the sweep workload: one caller Sets and Gets three keys on one unbounded
\* shard with ttl 1 and the reaper ticking every time unit; operations and
\* sweeps do not overlap
SweepConfigs == {NewArgs(1, 0, 1, 1)}
SweepOrders == {Order(k, 1) : k \in Keys}
SweepOp(A) == ReaperIdle /\ ObsSweep(A)
SweepStart(A) == CallerIdle /\ ObsSweep(A)

NextSweep ==
  \/ ObsSweep(NewValidate) \/ ObsSweep(NewRound) \/ ObsSweep(NewBuild)
  \/ \E o \in SweepOrders : SweepOp(CallSet(SeqTask, o))
  \/ \E id \in Keys : SweepOp(CallGet(SeqTask, id))
  \/ SweepOp(SetLock(SeqTask)) \/ SweepOp(SetInsert(SeqTask))
  \/ SweepOp(SetUnlock(SeqTask))
  \/ SweepOp(GetRLock(SeqTask)) \/ SweepOp(GetRUnlock(SeqTask))
  \/ SweepOp(GetLock(SeqTask)) \/ SweepOp(GetUnlock(SeqTask))
  \/ SweepStart(ReaperTick)
  \/ ObsSweep(ReaperLock) \/ ObsSweep(ReaperUnlock)
  \/ ObsSweep(AdvanceClock)

InitSweep == \E a \in SweepConfigs : InitWith(a, MaxSeqCalls)

SpecSweep == InitSweep /\ [][NextSweep]_vars

\* the workload without Gets: the callers Set and load two keys on one
\* unbounded shard with ttl 1 while the reaper sweeps every time unit
NoGetConfigs == {NewArgs(1, 0, 1, 1)}
NoGetOrders == {Order(k, 1) : k \in SpecKeys}

NextNoGet ==
  \/ Same(NewValidate) \/ Same(NewRound) \/ Same(NewBuild)
  \/ \E t \in Tasks :
       \/ \E o \in NoGetOrders : Same(CallSet(t, o))
       \/ \E l \in SpecLists : Same(CallLoad(t, l))
       \/ Same(SetLock(t)) \/ Same(SetInsert(t)) \/ Same(SetUnlock(t))
       \/ Same(LoadNext(t))
  \/ Same(ReaperTick) \/ Same(ReaperLock) \/ Same(ReaperUnlock)
  \/ Same(AdvanceClock)

InitNoGet == \E a \in NoGetConfigs : InitWith(a, MaxCalls)

SpecNoGet == InitNoGet /\ [][NextNoGet]_vars

(***************************************************************************)
(* The server process (cmd/server/main.go).  Errors are chains of          *)
(* messages, the empty chain being nil.                                    *)
(***************************************************************************)
\* largest max_connections of the configurations, messages the topic
\* delivers, requests the server receives
MaxAttempts == 2
MaxMsgs == 2
MaxReqs == 1

NilErr == << >>
\* fmt.Errorf(msg + ": %w", err)
Errorf(msg, err) == <<msg>> \o err

\* the goroutines as callers of the cache: run loads the snapshot before it
\* launches the consumer
MainTask == 1
ConsumerTask == 1
HandlerTask == 2

pkgVars == <<newVars, cacheVars, task, calls, reaperVars, stopCh, closer,
             clock, heap, hist>>

\* main has not returned: the process and its goroutines exist
Alive == run.pc # "returned"

\* a step of the cache package taken inside the server process
Srv(A) == Alive /\ A /\ UNCHANGED <<heap, hist, srvVars>>

Defer(r, f) == [r EXCEPT !.defers = Append(@, f)]
\* a return statement of run: the deferred calls are next
Return(r, err) == [r EXCEPT !.pc = "defers", !.err = err]

(***************************************************************************)
(* DoWithTries (pkg/utils/repeatable.go 10-19) as NewClient calls it       *)
(* (pkg/client/postgres/postgresSQL.go 36-56).                             *)
(***************************************************************************)
AttemptCounts == -1 .. MaxAttempts
\* the errors pgxpool.Connect returns
ConnectErrors == {NilErr, <<"connect">>}

\* (faulty variant) the loop runs once more
TriesLeftInclusive(i, maxAttempts) == i <= maxAttempts

\* i < maxAttempts
TriesLeft(i, maxAttempts) == i < maxAttempts

\* the loop test; then err = fn(), which assigns NewClient's pool and err
\* (44), and return nil on success; or the return after the loop
TryCall ==
  /\ Alive /\ tries.pc = "loop"
  /\ IF TriesLeft(tries.i, tries.maxAttempts)
       THEN \E e \in ConnectErrors :
              tries' = [tries EXCEPT
                 !.err = e,
                 !.pool = IF e = NilErr THEN "open" ELSE "nil",
                 !.pc = IF e = NilErr THEN "done" ELSE "sleep",
                 !.ret = NilErr,
                 !.calls = @ + 1,
                 !.nils = @ + (IF e = NilErr THEN 1 ELSE 0)]
       ELSE tries' = [tries EXCEPT
                 !.pc = "done",
                 !.ret = Errorf("failed after attempts", tries.err)]
  /\ UNCHANGED <<pkgVars, run, ctx, db, consumer, handler, sig, http>>

\* time.Sleep(delay); i++
TrySleep ==
  /\ Alive /\ tries.pc = "sleep"
  /\ tries' = [tries EXCEPT !.pc = "loop", !.i = @ + 1]
  /\ UNCHANGED <<pkgVars, run, ctx, db, consumer, handler, sig, http>>

\* NewClient's returns (51-55), and run's test of the error (61-64)
NewClientReturn ==
  /\ Alive /\ run.pc = "db" /\ tries.pc = "done"
  /\ run' = IF tries.ret # NilErr
              THEN Return(run, Errorf("failed to connect to database", tries.ret))
              ELSE [Defer(run, "pool.Close") EXCEPT !.pc = "new", !.pool = tries.pool]
  /\ tries' = NoTries
  /\ UNCHANGED <<pkgVars, ctx, db, consumer, handler, sig, http>>

(***************************************************************************)
(* run (main.go 44-136).                                                   *)
(***************************************************************************)
\* context.WithCancel, defer cancel(), config.Load (46-60)
RunConfig ==
  /\ run.pc = "config"
  /\ \/ /\ run' = Return(Defer(run, "cancel"), <<"config">>)
        /\ UNCHANGED tries
     \/ \E k \in AttemptCounts :
          /\ run' = [Defer(run, "cancel") EXCEPT !.pc = "db"]
          /\ tries' = [NoTries EXCEPT !.pc = "loop", !.maxAttempts = k]
  /\ UNCHANGED <<pkgVars, ctx, db, consumer, handler, sig, http>>

\* a step of cache.New (68)
InNew(A) == Alive /\ run.pc = "new" /\ A /\ UNCHANGED <<heap, hist, srvVars>>

\* if err != nil { return err }; defer cc.Close() (69-72)
RunNewReturn ==
  /\ Alive /\ run.pc = "new" /\ newpc = "done"
  /\ run' = IF newErr # "" THEN Return(run, <<newErr>>)
            ELSE [Defer(run, "cc.Close") EXCEPT !.pc = "load"]
  /\ UNCHANGED <<pkgVars, ctx, tries, db, consumer, handler, sig, http>>

\* the slices GetAllOrders can build from table D: its map is ranged over
\* in any order
Listings(D) ==
  {l \in [1 .. Cardinality(D) -> D] : \A i, j \in DOMAIN l : l[i] = l[j] => i = j}

\* postgres.GetAllOrders and cc.LoadFromSlice (76-80)
RunLoad ==
  /\ Alive /\ run.pc = "load"
  /\ \/ /\ run' = Return(run, <<"failed to query orders">>)
        /\ UNCHANGED pkgVars
     \/ \E l \in Listings(db) :
          /\ CallLoad(MainTask, l)
          /\ run' = [run EXCEPT !.pc = "loading"]
          /\ UNCHANGED <<heap, hist>>
  /\ UNCHANGED <<ctx, tries, db, consumer, handler, sig, http>>

\* LoadFromSlice has returned: the reader and its deferred Close (84-89),
\* the consumer goroutine (93), the server (96-103), signal.Notify and the
\* signal goroutine (106-110)
RunStart ==
  /\ Alive /\ run.pc = "loading" /\ task[MainTask].pc = "idle"
  /\ run' = [Defer(run, "reader.Close") EXCEPT !.pc = "serve"]
  /\ consumer' = [NoConsumer EXCEPT !.pc = "read"]
  /\ sig' = [NoSig EXCEPT !.pc = "wait"]
  /\ UNCHANGED <<pkgVars, ctx, tries, db, handler, http>>

\* server.ListenAndServe (127) begins to serve
RunListen ==
  /\ Alive /\ run.pc = "serve" /\ http = "new"
  /\ http' = "serving"
  /\ UNCHANGED <<pkgVars, run, ctx, tries, db, consumer, handler, sig>>

\* ListenAndServe fails to listen or to accept: return err (128-130)
RunServeError ==
  /\ Alive /\ run.pc = "serve" /\ http \in {"new", "serving"}
  /\ run' = Return(run, <<"listen">>)
  /\ UNCHANGED <<pkgVars, ctx, tries, db, consumer, handler, sig, http>>

\* ListenAndServe returns http.ErrServerClosed once Shutdown has been called
RunServeClosed ==
  /\ Alive /\ run.pc = "serve" /\ http = "shutdown"
  /\ run' = [run EXCEPT !.pc = "wait"]
  /\ UNCHANGED <<pkgVars, ctx, tries, db, consumer, handler, sig, http>>

\* (faulty variant) run returns without waiting for the consumer
RunWaitSkipped ==
  /\ Alive /\ run.pc = "wait"
  /\ run' = Return(run, NilErr)
  /\ UNCHANGED <<pkgVars, ctx, tries, db, consumer, handler, sig, http>>

\* wg.Wait(); return nil (133-135)
RunWait ==
  /\ Alive /\ run.pc = "wait" /\ consumer.pc = "done"
  /\ run' = Return(run, NilErr)
  /\ UNCHANGED <<pkgVars, ctx, tries, db, consumer, handler, sig, http>>

\* the deferred call that runs next, the last one registered
Deferred(f) ==
  run.pc = "defers" /\ run.defers # << >> /\ run.defers[Len(run.defers)] = f
Popped == [run EXCEPT !.defers = SubSeq(@, 1, Len(@) - 1)]

\* reader.Close() (85-89)
RunDeferReader ==
  /\ Deferred("reader.Close")
  /\ run' = Popped
  /\ UNCHANGED <<pkgVars, ctx, tries, db, consumer, handler, sig, http>>

\* cc.Close() (72)
RunDeferCache ==
  /\ Deferred("cc.Close")
  /\ Close
  /\ run' = Popped
  /\ UNCHANGED <<heap, hist, ctx, tries, db, consumer, handler, sig, http>>

\* pool.Close() (64)
RunDeferPool ==
  /\ Deferred("pool.Close")
  /\ run' = [Popped EXCEPT !.pool = "closed"]
  /\ UNCHANGED <<pkgVars, ctx, tries, db, consumer, handler, sig, http>>

\* cancel() (47)
RunDeferCancel ==
  /\ Deferred("cancel")
  /\ run' = Popped
  /\ ctx' = "canceled"
  /\ UNCHANGED <<pkgVars, tries, db, consumer, handler, sig, http>>

\* run returns to main, and the process ends
RunExit ==
  /\ run.pc = "defers" /\ run.defers = << >>
  /\ run' = [run EXCEPT !.pc = "returned"]
  /\ UNCHANGED <<pkgVars, ctx, tries, db, consumer, handler, sig, http>>

(***************************************************************************)
(* The consumer goroutine (main.go 151-186).                               *)
(***************************************************************************)
\* what the topic delivers: bytes that are no JSON, an order that fails
\* validation, and orders that pass
Msgs ==
  {NoMsg, [json |-> TRUE, uid |-> KeyA, data |-> 2, valid |-> FALSE],
   [json |-> TRUE, uid |-> KeyA, data |-> 1, valid |-> TRUE],
   [json |-> TRUE, uid |-> KeyB, data |-> 1, valid |-> TRUE]}

\* json.Unmarshal(msg.Value, &order) on well-formed bytes
Unmarshal(m) == Order(m.uid, m.data)

\* back to the top of the loop; the locals of the iteration are gone
NextMessage == [consumer EXCEPT !.pc = "read", !.msg = NoMsg, !.order = ZeroOrder,
                                !.passed = << >>]

\* reader.ReadMessage(ctx) (154-163): a message, or an error; on an error the
\* goroutine returns (and wg.Done runs) if ctx is canceled, and sleeps if not
ConsumerRead ==
  /\ Alive /\ consumer.pc = "read"
  /\ \/ \E m \in Msgs :
          /\ consumer.reads < MaxMsgs
          /\ consumer' = [consumer EXCEPT !.pc = "decode", !.msg = m,
                                          !.reads = @ + 1]
     \/ /\ ctx = "canceled"
        /\ consumer' = [consumer EXCEPT !.pc = "done"]
     \/ /\ ctx = "live"
        /\ consumer' = [consumer EXCEPT !.pc = "sleep"]
  /\ UNCHANGED <<pkgVars, run, ctx, tries, db, handler, sig, http>>

\* time.Sleep(cfg.Kafka.Reader.ReadBatchTimeout); continue (161-162)
ConsumerSleep ==
  /\ Alive /\ consumer.pc = "sleep"
  /\ consumer' = [consumer EXCEPT !.pc = "read"]
  /\ UNCHANGED <<pkgVars, run, ctx, tries, db, handler, sig, http>>

\* json.Unmarshal (167-171)
ConsumerDecode ==
  /\ Alive /\ consumer.pc = "decode"
  /\ consumer' = IF consumer.msg.json
                   THEN [consumer EXCEPT !.pc = "validate",
                                         !.order = Unmarshal(consumer.msg),
                                         !.passed = Append(@, "decode")]
                   ELSE NextMessage
  /\ UNCHANGED <<pkgVars, run, ctx, tries, db, handler, sig, http>>

\* validation.ValidateOrder (172-175)
ConsumerValidate ==
  /\ Alive /\ consumer.pc = "validate"
  /\ consumer' = IF consumer.msg.valid
                   THEN [consumer EXCEPT !.pc = "insert",
                                         !.passed = Append(@, "validate")]
                   ELSE NextMessage
  /\ UNCHANGED <<pkgVars, run, ctx, tries, db, handler, sig, http>>

\* (faulty variant) an order whose insert failed is cached all the same
ConsumerInsertAnyway ==
  /\ Alive /\ consumer.pc = "insert"
  /\ \/ /\ consumer' = [consumer EXCEPT !.pc = "set"]
        /\ db' = db
     \/ /\ \A o \in db : o.OrderUid # consumer.order.OrderUid
        /\ consumer' = [consumer EXCEPT !.pc = "set",
                                        !.passed = Append(@, "insert")]
        /\ db' = db \cup {consumer.order}
  /\ UNCHANGED <<pkgVars, run, ctx, tries, handler, sig, http>>

\* postgres.InsertOrder (177-181): it fails (a canceled context, a lost
\* connection, an order_uid already stored), or the order is stored
ConsumerInsert ==
  /\ Alive /\ consumer.pc = "insert"
  /\ \/ /\ consumer' = NextMessage
        /\ db' = db
     \/ /\ \A o \in db : o.OrderUid # consumer.order.OrderUid
        /\ consumer' = [consumer EXCEPT !.pc = "set",
                                        !.passed = Append(@, "insert")]
        /\ db' = db \cup {consumer.order}
  /\ UNCHANGED <<pkgVars, run, ctx, tries, handler, sig, http>>

\* orderCache.Set(order) is called (183)
ConsumerSet ==
  /\ Alive /\ consumer.pc = "set"
  /\ CallSet(ConsumerTask, consumer.order)
  /\ consumer' = [consumer EXCEPT !.pc = "cached"]
  /\ UNCHANGED <<heap, hist, run, ctx, tries, db, handler, sig, http>>

\* Set has returned (184); the next iteration
ConsumerCached ==
  /\ Alive /\ consumer.pc = "cached" /\ task[ConsumerTask].pc = "idle"
  /\ consumer' = NextMessage
  /\ UNCHANGED <<pkgVars, run, ctx, tries, db, handler, sig, http>>

(***************************************************************************)
(* The /order handler (main.go 191-217).                                   *)
(***************************************************************************)
\* the ids requests carry: none, one of a wrong format, and two of the
\* right format (the validation package decides; BadId stands for an id it
\* rejects)
BadId == <<33>>
RequestIds == {<< >>, BadId, KeyA, KeyB}
ValidateOrderID(id) == id \in Keys

\* http.Error(w, text, status)
HttpError(status, text) == [status |-> status, text |-> text, body |-> << >>]
\* json.NewEncoder(w).Encode(order), with the implicit status 200
Encode(o) == [order_uid |-> o.OrderUid, items |-> o.data]
HttpJson(o) == [status |-> 200, text |-> "", body |-> <<Encode(o)>>]

\* a request for id arrives: the two 400 answers (194-203), or the call of
\* orderCache.Get (205)
HandlerServe(id) ==
  /\ Alive /\ http = "serving" /\ handler.pc = "idle" /\ handler.reqs < MaxReqs
  /\ \/ /\ id = << >>
        /\ handler' = [handler EXCEPT !.id = id, !.reqs = @ + 1,
                         !.resp = HttpError(400, "order id is required")]
        /\ UNCHANGED pkgVars
     \/ /\ id # << >> /\ ~ValidateOrderID(id)
        /\ handler' = [handler EXCEPT !.id = id, !.reqs = @ + 1,
                         !.resp = HttpError(400, "invalid order id format")]
        /\ UNCHANGED pkgVars
     \/ /\ id # << >> /\ ValidateOrderID(id)
        /\ CallGet(HandlerTask, id)
        /\ handler' = [handler EXCEPT !.pc = "get", !.id = id, !.reqs = @ + 1,
                                      !.resp = NoResponse]
        /\ UNCHANGED <<heap, hist>>
  /\ UNCHANGED <<run, ctx, tries, db, consumer, sig, http>>

\* (faulty variant) every outcome of Get is answered with the order
RespondAlways(found, val) == HttpJson(val)

\* order, ok := orderCache.Get(orderID) has returned: 404, or the order (206-215)
Respond(found, val) ==
  IF ~found THEN HttpError(404, "order not found") ELSE HttpJson(val)

\* a step of Get inside the handler; the step that returns is followed by the
\* response
InHandler(A) ==
  /\ Alive /\ A
  /\ handler' = IF task'[HandlerTask].pc = "idle"
                  THEN [handler EXCEPT !.pc = "idle",
                          !.resp = Respond(task[HandlerTask].found,
                                           task[HandlerTask].val)]
                  ELSE handler
  /\ UNCHANGED <<heap, hist, run, ctx, tries, db, consumer, sig, http>>

(***************************************************************************)
(* The signal goroutine (main.go 110-123).                                 *)
(***************************************************************************)
\* SIGINT or SIGTERM is delivered to sigCh (capacity 1)
SignalArrives ==
  /\ Alive /\ sig.pc = "wait" /\ sig.ch = 0
  /\ sig' = [sig EXCEPT !.ch = 1]
  /\ UNCHANGED <<pkgVars, run, ctx, tries, db, consumer, handler, http>>

\* sig := <-sigCh; cancel() (111-113)
SigReceive ==
  /\ Alive /\ sig.pc = "wait" /\ sig.ch = 1
  /\ sig' = [pc |-> "shutdown", ch |-> 0]
  /\ ctx' = "canceled"
  /\ UNCHANGED <<pkgVars, run, tries, db, consumer, handler, http>>

\* server.Shutdown(shCtx) (115-122): the listener is closed
SigShutdown ==
  /\ Alive /\ sig.pc = "shutdown"
  /\ sig' = [sig EXCEPT !.pc = "done"]
  /\ http' = "shutdown"
  /\ UNCHANGED <<pkgVars, run, ctx, tries, db, consumer, handler>>

(***************************************************************************)
(* The server specification: run from its first line, on a valid and on an *)
(* invalid cache configuration, with a table that holds two orders.  The   *)
(* cache has one shard of capacity 1 and no ttl, and the process is        *)
(* followed for less than one cleanup interval: the reaper is launched and *)
(* stopped, and its ticker does not fire.                                  *)
(***************************************************************************)
ServerConfigs == {NewArgs(1, 1, 0, 1), NewArgs(0, 1, 0, 1)}
ServerTables == {{Order(KeyA, 1), Order(KeyC, 1)}}
\* no cache call of the process waits for want of budget
ServerCalls == MaxMsgs + MaxReqs + Cardinality(Keys)

\* the steps of run, of the connection retry, of the consumer, of the signal
\* goroutine, and of the cache calls of task t
RunStep ==
  \/ RunConfig \/ NewClientReturn
  \/ InNew(NewValidate) \/ InNew(NewRound) \/ InNew(NewBuild)
  \/ RunNewReturn \/ RunLoad \/ RunStart
  \/ RunListen \/ RunServeError \/ RunServeClosed \/ RunWait
  \/ RunDeferReader \/ RunDeferCache \/ RunDeferPool \/ RunDeferCancel
  \/ RunExit
TryStep == TryCall \/ TrySleep
ConsumerStep ==
  \/ ConsumerRead \/ ConsumerSleep \/ ConsumerDecode \/ ConsumerValidate
  \/ ConsumerInsert \/ ConsumerSet \/ ConsumerCached
SigStep == SigReceive \/ SigShutdown
SetStep(t) == Srv(SetLock(t)) \/ Srv(SetInsert(t)) \/ Srv(SetUnlock(t)) \/ Srv(LoadNext(t))
GetStep(t) ==
  \/ Srv(GetRLock(t)) \/ InHandler(GetRUnlock(t))
  \/ Srv(GetLock(t)) \/ InHandler(GetUnlock(t))

NextServer ==
  \/ RunConfig \/ NewClientReturn
  \/ InNew(NewValidate) \/ InNew(NewRound) \/ InNew(NewBuild)
  \/ RunNewReturn \/ RunLoad \/ RunStart
  \/ RunListen \/ RunServeError \/ RunServeClosed \/ RunWait
  \/ RunDeferReader \/ RunDeferCache \/ RunDeferPool \/ RunDeferCancel
  \/ RunExit
  \/ TryCall \/ TrySleep
  \/ ConsumerRead \/ ConsumerSleep \/ ConsumerDecode \/ ConsumerValidate
  \/ ConsumerInsert \/ ConsumerSet \/ ConsumerCached
  \/ Srv(SetLock(ConsumerTask)) \/ Srv(SetInsert(ConsumerTask))
  \/ Srv(SetUnlock(ConsumerTask)) \/ Srv(LoadNext(MainTask))
  \/ \E id \in RequestIds : HandlerServe(id)
  \/ Srv(GetRLock(HandlerTask)) \/ InHandler(GetRUnlock(HandlerTask))
  \/ Srv(GetLock(HandlerTask)) \/ InHandler(GetUnlock(HandlerTask))
  \/ SignalArrives \/ SigReceive \/ SigShutdown
  \/ Srv(ReaperStop)

InitServerSpec ==
  \E a \in ServerConfigs, d \in ServerTables :
    InitCache(a, ServerCalls) /\ InitServer(d)

\* the scheduler runs every goroutine that can take a step, and a lock that
\* is free is granted
FairServer ==
  /\ WF_vars(RunStep)
  /\ WF_vars(TryStep)
  /\ WF_vars(ConsumerStep)
  /\ WF_vars(SigStep)
  /\ WF_vars(SetStep(ConsumerTask))
  /\ WF_vars(GetStep(HandlerTask))

SpecServer == InitServerSpec /\ [][NextServer]_vars /\ FairServer

(***************************************************************************)
(* Properties.                                                             *)
(***************************************************************************)
ShardIds == DOMAIN shards
HeldKeys(i) == DOMAIN shards[i].items
WasSet(k) == hist.lastSet[k].at >= 0

\* C1: whenever no writer is inside a shard, its map and its recency list
\* correspond one to one: every key of the map has exactly one list position,
\* every list element's key is in the map and maps back to that element, and
\* len(items) = len(lru).
NoCorruption ==
  \A i \in ShardIds :
    mu[i].w = NoTask =>
      LET sh == shards[i]
      IN  /\ Cardinality(DOMAIN sh.items) = Len(sh.lru)
          /\ \A k \in DOMAIN sh.items :
               Cardinality({p \in 1 .. Len(sh.lru) : sh.lru[p] = sh.items[k]}) = 1
          /\ \A p \in 1 .. Len(sh.lru) :
               /\ ents[sh.lru[p]].key \in DOMAIN sh.items
               /\ sh.items[ents[sh.lru[p]].key] = sh.lru[p]

\* C1 witness: a free shard that holds KeyB after KeyA was Set and removed
NoCorruptionWitness ==
  /\ ~c.isNil
  /\ mu[0] = FreeMutex
  /\ WasSet(KeyA) /\ WasSet(KeyB)
  /\ HeldKeys(0) = {KeyB}

\* C3: with a per-shard capacity c > 0, whenever no writer is inside a shard
\* it holds at most c entries.
CapacityBound ==
  \A i \in ShardIds :
    (c.perShardCap > 0 /\ mu[i].w = NoTask) =>
      /\ Len(shards[i].lru) <= c.perShardCap
      /\ Cardinality(DOMAIN shards[i].items) <= c.perShardCap

\* C3 witness: both keys were Set at time 0, when nothing can have expired,
\* and the free shard holds exactly its capacity
CapacityBoundWitness ==
  /\ ~c.isNil /\ c.perShardCap = 1
  /\ clock = 0
  /\ mu[0] = FreeMutex
  /\ WasSet(KeyA) /\ WasSet(KeyB)
  /\ Len(shards[0].lru) = 1

\* C5: with ttl > 0, a Get that starts more than ttl after the most recent Set
\* of its key returned, with no Set of the key during the Get, returns
\* found = false, whatever sweeps and other Gets run meanwhile.
LazyTtl ==
  \A t \in Tasks :
    LET tk == task[t]
    IN  (/\ GetDecided(tk)
         /\ c.ttl > 0
         /\ hist.get[t].quiet
         /\ WasSet(tk.id)
         /\ tk.now - hist.lastSet[tk.id].at > c.ttl)
        => ~tk.found

\* C6: the result of every Get is the result an atomic lookup gives at some
\* instant between the Get's call and its return.
GetLinearizable ==
  \A t \in Tasks :
    GetDecided(task[t]) => Result(task[t].found, task[t].val) \in hist.get[t].lin

\* a Get never moves an entry's createdAt past the return of the key's last Set
AnchoredToSet ==
  \A i \in ShardIds : \A k \in DOMAIN shards[i].items :
    (WasSet(k) /\ ~\E u \in Tasks : SetInFlight(task, u, k))
      => ents[shards[i].items[k]].createdAt <= hist.lastSet[k].at

\* C7: ttl is anchored to the last Set, not the last Get: reads leave
\* createdAt where the Set put it, so a key Set at t0 is reported not found by
\* a Get that starts after t0 + ttl.
TtlAnchoredToSet ==
  /\ AnchoredToSet
  /\ \A t \in Tasks :
       LET tk == task[t]
       IN  (/\ GetDecided(tk)
            /\ c.ttl > 0
            /\ hist.get[t].quiet
            /\ WasSet(tk.id)
            /\ tk.now > hist.lastSet[tk.id].at + c.ttl)
           => (~tk.found /\ tk.val = ZeroOrder)

\* C2: a Set followed immediately by a Get of its key, with no other
\* operation on the shard in between and less than ttl elapsed (or ttl = 0),
\* returns the value just Set and found = true, also when the Set found the
\* shard at its capacity.
RoundTrip ==
  \A t \in Tasks :
    LET tk == task[t]
        ls == hist.last[t]
    IN  (/\ GetDecided(tk)
         /\ ls.ok
         /\ ls.o.OrderUid = tk.id
         /\ (c.ttl = 0 \/ tk.now - ls.now < c.ttl))
        => (tk.found /\ tk.val = ls.o)

\* C2 witness: the Set inserted a new key into a shard at its capacity and
\* the Get that follows it has its result
RoundTripWitness ==
  \E t \in Tasks :
    /\ GetDecided(task[t])
    /\ hist.last[t].ok /\ hist.last[t].full
    /\ hist.last[t].o.OrderUid = task[t].id
    /\ task[t].found /\ task[t].val = hist.last[t].o

\* C4: in a sequential execution on one shard with capacity c > 0, the insert
\* of a new key into a shard that holds c entries removes exactly one entry,
\* the one held before whose most recent touch (its Set, or a Get of it that
\* returned found) is the oldest.
LruVictim ==
  hist.victim.overflow => hist.victim.removed = {hist.victim.oldest}

\* C4 witness: after Set A, Set B, Get A, the insert of C removed B
LruVictimWitness ==
  /\ hist.victim.overflow
  /\ hist.victim.removed = {KeyB}
  /\ task[SeqTask].o.OrderUid = KeyC
  /\ hist.touched = <<[k |-> KeyA, by |-> "Get"]>>
  /\ LruKeys(shards[0], ents) = <<KeyA, KeyC>>

\* C8: in a cache built with maxItems = 0 and ttl = 0 every key that has been
\* Set is held by its shard, and a Get of a key that had been Set when the Get
\* was called returns found = true, with the value of the key's last Set when
\* no Set of the key runs during the Get.
Retention ==
  /\ \A k \in Keys : WasSet(k) => ~c.isNil /\ k \in HeldKeys(shardFor(k))
  /\ \A t \in Tasks :
       LET tk == task[t]
       IN  (GetDecided(tk) /\ hist.get[t].was) =>
             /\ tk.found
             /\ hist.get[t].quiet => tk.val = hist.lastSet[tk.id].val

\* C8 witness: two keys of one shard have been Set, one of them twice, and a
\* Get of that one has its result
RetentionWitness ==
  /\ WasSet(KeyA) /\ WasSet(KeyC)
  /\ \E t \in Tasks :
       /\ GetDecided(task[t]) /\ task[t].id = KeyC
       /\ hist.get[t].was /\ hist.get[t].quiet
       /\ task[t].found /\ task[t].val = Order(KeyC, 2)

\* C9: when LoadFromSlice has passed the first n elements of its slice to Set,
\* the cache is in the state that Set on each of these elements, in input
\* order, produces from the cache the load started with; at n = len(list) this
\* is the state LoadFromSlice leaves.
LoadIsSets ==
  LET tk == task[SeqTask]
      n  == Len(hist.load.list) - Len(tk.list) + 1
  IN  (tk.op = "LoadFromSlice" /\ tk.pc = "set_unlock") =>
        AbsCache(shards, ents) =
          AbsSets(hist.load.before, hist.load.list, hist.load.nows, n)

\* C9 witness: a load of A, B, A again and C into an empty shard of capacity 2
\* is at its end: B has been evicted and A holds the later value
LoadIsSetsWitness ==
  LET tk == task[SeqTask]
  IN  /\ tk.op = "LoadFromSlice" /\ tk.pc = "set_unlock" /\ Len(tk.list) = 1
      /\ Len(hist.load.list) = 4
      /\ hist.load.before[0].lru = << >>
      /\ LruKeys(shards[0], ents) = <<KeyA, KeyC>>
      /\ ents[shards[0].items[KeyA]].value = Order(KeyA, 2)

\* the arguments the contract of New rejects
NewInvalid(a) ==
  \/ a.shardCount <= 0
  \/ a.maxItems < 0
  \/ a.ttl < 0
  \/ a.cleanupInterval < 0
  \/ (a.maxItems > 0 /\ a.maxItems < a.shardCount)

\* C10: New returns, and it returns an error exactly when shardCount <= 0, or
\* maxItems < 0, or ttl < 0, or cleanupInterval < 0, or 0 < maxItems <
\* shardCount; with the error it returns no cache and has started no reaper,
\* and otherwise it returns a nil error and a cache with a shard and a lock
\* for every index of its mask.
NewContract ==
  /\ newpc = "done" \/ ENABLED <<NextNew>>_vars
  /\ newpc = "done" =>
       /\ (newErr # "") <=> NewInvalid(args)
       /\ newErr # "" => (c.isNil /\ reaper.pc = "none" /\ ~cleanupStarted)
       /\ newErr = "" => /\ ~c.isNil
                         /\ DOMAIN shards = 0 .. c.mask
                         /\ DOMAIN mu = DOMAIN shards

\* the smallest power of two that is >= n
RoundedUp(n) ==
  LET P == {Pow2(i) : i \in 0 .. IntBits}
  IN  CHOOSE p \in P : p >= n /\ \A q \in P : q >= n => p <= q

\* C11: for every accepted shardCount the rounding loop of New terminates,
\* and the cache it builds has as many shards as the smallest power of two
\* that is >= shardCount, with mask = shards - 1.
RoundsUpToPowerOfTwo ==
  /\ newpc = "round" => ENABLED <<Same(NewRound)>>_vars
  /\ (newpc = "done" /\ newErr = "") =>
       /\ Cardinality(DOMAIN shards) = RoundedUp(args.shardCount)
       /\ c.mask = Cardinality(DOMAIN shards) - 1

\* C12: after a successful New, perShardCap is max(1, maxItems / sc) when
\* maxItems > 0, sc being the number of shards, and 0 when maxItems = 0; so
\* it is at least 1 whenever a capacity is configured.
PerShardCapacity ==
  (newpc = "done" /\ newErr = "") =>
    LET n == Cardinality(DOMAIN shards)
    IN  /\ args.maxItems > 0 =>
             (c.perShardCap = Max(1, args.maxItems \div n) /\ c.perShardCap >= 1)
        /\ args.maxItems = 0 => c.perShardCap = 0

\* C12 witness: a successful New whose quotient maxItems / sc is 0, so that
\* perShardCap * sc exceeds maxItems
PerShardCapacityWitness ==
  /\ newpc = "done" /\ newErr = ""
  /\ args.maxItems > 0
  /\ args.maxItems \div Cardinality(DOMAIN shards) = 0
  /\ c.perShardCap * Cardinality(DOMAIN shards) > args.maxItems

\* C13: a successful New has started the reaper if and only if ttl > 0 or
\* maxItems > 0.
ReaperStartedIff ==
  (newpc = "done" /\ newErr = "") =>
    (reaper.pc # "none" <=> (args.ttl > 0 \/ args.maxItems > 0))

\* C14: once Close has been called on a cache whose reaper is running, the
\* reaper reaches Stopped (or the process has died of a second Close);
\* Stopped is terminal: the reaper never leaves it, so no sweep follows and
\* no reaper is started again; and the reaper holds a shard's lock only
\* inside a sweep, at that shard, and every sweep comes to its end.
ReaperTerminates ==
  /\ (stopCh = "closed" /\ ReaperAlive) ~> (reaper.pc = "stopped" \/ closer.panicked)
  /\ [][reaper.pc = "stopped" => reaper' = reaper]_vars
  /\ [](\A i \in ShardIds :
          mu[i].w = ReaperId => (reaper.pc = "unlock" /\ reaper.idx = i))
  /\ (reaper.pc \in {"lock", "unlock"})
       ~> (reaper.pc \in {"select", "stopped"} \/ closer.panicked)

\* C14 witness: Close was called while a sweep was in progress, and the
\* reaper has stopped with every lock free
ReaperTerminatesWitness ==
  /\ hist.life.midSweep
  /\ reaper.pc = "stopped"
  /\ ~closer.panicked
  /\ \A i \in ShardIds : mu[i] = FreeMutex

\* C15: once Close has returned the reaper begins no sweep, also when a tick
\* and the stop signal are both ready.
NoSweepAfterClose ==
  [][stopCh = "closed" => ~(reaper.pc = "select" /\ reaper'.pc = "lock")]_vars

\* C16: the first Close completes normally, with or without a reaper, and a
\* second Close on the same cache ends in a panic.
CloseSingleUse ==
  /\ closer.calls = 0 => (stopCh = "open" /\ ~closer.panicked)
  /\ closer.calls = 1 => (stopCh = "closed" /\ ~closer.panicked)
  /\ closer.calls >= 2 => closer.panicked

\* C16 witness: the second Close on a cache for which New launched no reaper
CloseSingleUseWitness ==
  /\ closer.calls = 2 /\ closer.panicked
  /\ reaper.pc = "none"

\* C17: Set, Get and LoadFromSlice are total in every lifecycle state: the
\* router's index is a shard of the cache, every started call returns (as
\* long as no second Close has killed the process), a Get that reports not
\* found returns the zero order, and once Close has been called a shard
\* still keeps to its capacity and a Get that finds its key expired still
\* removes it.
OperationsTotal ==
  /\ [](\A t \in Tasks : task[t].pc \notin {"idle", "load_next"}
                            => task[t].s \in ShardIds)
  /\ [](\A t \in Tasks : (GetDecided(task[t]) /\ ~task[t].found)
                            => task[t].val = ZeroOrder)
  /\ \A t \in Tasks :
       (task[t].pc # "idle") ~> (task[t].pc = "idle" \/ closer.panicked)
  /\ [](stopCh = "closed" =>
          /\ \A i \in ShardIds :
               (c.perShardCap > 0 /\ mu[i].w = NoTask)
                 => Len(shards[i].lru) <= c.perShardCap
          /\ \A t \in Tasks :
               (/\ task[t].pc = "get_unlock" /\ task[t].path = "expired"
                /\ ~task[t].found)
                 => task[t].id \notin HeldKeys(task[t].s))

\* C17 witness: after Close, with the reaper stopped, a Get of a key Set
\* more than ttl ago has removed it and reports not found
OperationsTotalWitness ==
  /\ stopCh = "closed" /\ reaper.pc = "stopped"
  /\ \E t \in Tasks :
       /\ task[t].pc = "get_unlock" /\ task[t].path = "expired"
       /\ ~task[t].found
       /\ shards[task[t].s].lru = << >>

\* the key of the call task record tk is in
CallKey(tk) == IF tk.op = "Get" THEN tk.id ELSE tk.o.OrderUid

\* C18: every step of a Set or a Get leaves the map, the recency list, the
\* entries (with their createdAt) and the lock of every shard other than the
\* one the router selects for its key as they are, and a call that needs its
\* shard's lock proceeds as soon as that lock allows it, whatever the state
\* of the other shards' locks.
ShardIsolation ==
  /\ [][\A t \in Tasks :
         LET tk == IF task[t].pc \in {"idle", "load_next"} THEN task'[t] ELSE task[t]
         IN  (task'[t] # task[t] /\ tk.pc # "idle") =>
               \A i \in ShardIds \ {ShardIndex(CallKey(tk), c.mask)} :
                 /\ shards'[i] = shards[i]
                 /\ AbsShard(shards'[i], ents') = AbsShard(shards[i], ents)
                 /\ mu'[i] = mu[i]]_vars
  /\ [](\A t \in Tasks :
          /\ (task[t].pc = "set_lock" /\ CanLock(task[t].s))
               => ENABLED <<ObsKeep(SetLock(t))>>_vars
          /\ (task[t].pc = "get_rlock" /\ CanRLock(task[t].s))
               => ENABLED <<ObsKeep(GetRLock(t))>>_vars
          /\ (task[t].pc = "get_lock" /\ CanLock(task[t].s))
               => ENABLED <<ObsKeep(GetLock(t))>>_vars)

\* C18 witness: a Set holds the write lock of shard 1 while a Get is inside
\* its write phase on shard 0 and has found its key there
ShardIsolationWitness ==
  \E t, u \in Tasks :
    /\ task[t].op = "Set" /\ task[t].pc = "set_unlock" /\ task[t].s = 1
    /\ task[u].op = "Get" /\ task[u].pc = "get_unlock" /\ task[u].s = 0
    /\ task[u].found /\ mu[0].w = u /\ mu[1].w = t

\* the shards whose lock who holds, for writing or for reading
LocksHeld(who) == {i \in ShardIds : mu[i].w = who \/ who \in mu[i].r}

\* C19: no caller and no sweep holds the locks of two shards at once; no
\* state with a call or a sweep in progress is a deadlock; and under fair
\* scheduling every started call and every started sweep completes (as long
\* as no second Close has killed the process).
NoDeadlock ==
  /\ [](\A who \in Tasks \cup {ReaperId} : Cardinality(LocksHeld(who)) <= 1)
  /\ []((/\ ~closer.panicked
          /\ \/ \E t \in Tasks : task[t].pc # "idle"
             \/ reaper.pc \in {"lock", "unlock"})
         => ENABLED <<(\E t \in Tasks : TaskStep(t)) \/ ReaperSweep>>_vars)
  /\ \A t \in Tasks :
       (task[t].pc \in {"set_lock", "get_rlock", "get_lock"})
         ~> (task[t].pc = "idle" \/ closer.panicked)
  /\ (reaper.pc = "lock") ~> (reaper.pc \in {"select", "stopped"} \/ closer.panicked)

\* C19 witness: a caller waits for a shard's lock that another caller holds
\* while the sweep holds the other shard's lock
NoDeadlockWitness ==
  \E t, u \in Tasks :
    /\ t # u
    /\ task[t].pc \in {"set_lock", "get_rlock", "get_lock"}
    /\ mu[task[t].s].w = u
    /\ reaper.pc = "unlock" /\ reaper.idx # task[t].s
    /\ mu[reaper.idx].w = ReaperId

\* C20: what the cache holds for a key, and what a Get of the key returns,
\* has the Items elements the order had when its Set returned, whatever the
\* caller has since written to its own order or to an order a Get returned.
CopyIndependence ==
  /\ \A i \in ShardIds : \A k \in HeldKeys(i) :
       (hist.deep[k] >= 0 /\ mu[i].w = NoTask)
         => ItemsOf(ents[shards[i].items[k]].value) = hist.deep[k]
  /\ \A t \in Tasks :
       (GetDecided(task[t]) /\ task[t].found)
         => ItemsOf(task[t].val) = hist.deep[task[t].id]

\* C21: a Get that returns found returns, whole, a value the map has held
\* under its key at some instant since the Get was called (the value some one
\* Set of that key stored: the old one or the new one when a Set of the key
\* runs meanwhile); and the read of an entry's value never overlaps a write:
\* a task in Get's read phase holds the read lock and no writer is inside.
NoTornReads ==
  /\ \A t \in Tasks :
       (GetDecided(task[t]) /\ task[t].found)
         => /\ task[t].val.OrderUid = task[t].id
            /\ task[t].val \in hist.seen[t]
  /\ \A t \in Tasks :
       task[t].pc = "get_runlock"
         => (t \in mu[task[t].s].r /\ mu[task[t].s].w = NoTask)

\* C21 witness: a Get has found the old value of its key while the map holds
\* the new value a Set stored during the Get
NoTornReadsWitness ==
  \E t \in Tasks :
    /\ GetDecided(task[t]) /\ task[t].found
    /\ task[t].id \in HeldKeys(task[t].s)
    /\ ents[shards[task[t].s].items[task[t].id]].value # task[t].val
    /\ Cardinality(hist.seen[t]) = 2

\* C22: once the cache is built its mask and its shards are fixed, so the
\* router's index depends on the key alone; for every key (the empty key
\* included) the index is one of the cache's shards; and every call in
\* progress works on the shard the router gives for its key, so a Set and a
\* Get of the same key address the same shard.
RouterDeterministic ==
  /\ [][newpc = "done" => (c'.mask = c.mask /\ DOMAIN shards' = DOMAIN shards)]_vars
  /\ [](~c.isNil => \A k \in Keys \cup LifeKeys : shardFor(k) \in ShardIds)
  /\ [](\A t \in Tasks :
          task[t].pc \notin {"idle", "load_next"}
            => task[t].s = ShardIndex(CallKey(task[t]), c.mask))
  /\ [](\A t, u \in Tasks :
          (/\ task[t].pc \notin {"idle", "load_next"}
           /\ task[u].pc \notin {"idle", "load_next"}
           /\ CallKey(task[t]) = CallKey(task[u]))
            => task[t].s = task[u].s)

\* C22 witness: on a cache of two shards a Set of KeyA is inside shard 0, a
\* Get of KeyA waits for the same shard, and the empty key routes to shard 1
RouterDeterministicWitness ==
  /\ ~c.isNil /\ c.mask = 1
  /\ shardFor(<< >>) = 1
  /\ \E t, u \in Tasks :
       /\ task[t].op = "Set" /\ task[t].pc = "set_unlock" /\ task[t].o.OrderUid = KeyA
       /\ task[u].op = "Get" /\ task[u].pc = "get_rlock" /\ task[u].id = KeyA
       /\ task[t].s = 0 /\ task[u].s = 0

\* C23: a successful New leaves the effective cleanup interval at one minute
\* when ttl > 0 and cleanupInterval <= 0, and at the cleanupInterval argument
\* in every other case.
CleanupIntervalDefault ==
  (newpc = "done" /\ newErr = "") =>
    /\ (args.ttl > 0 /\ args.cleanupInterval <= 0) => c.cleanupEvery = Minute
    /\ ~(args.ttl > 0 /\ args.cleanupInterval <= 0)
         => c.cleanupEvery = args.cleanupInterval

\* C23 witness: a cache built with a ttl and no interval sweeps every minute
CleanupIntervalDefaultWitness ==
  /\ newpc = "done" /\ newErr = ""
  /\ args.ttl > 0 /\ args.cleanupInterval = 0
  /\ c.cleanupEvery = Minute
  /\ tickerNext = Minute

\* C24: when Get's write phase ends with found = true, the key is in the map
\* under the write lock, and the entry the map gives for it there is the one
\* whose recency position was moved (it is the back of the list) and whose
\* value is returned, on the expired-at-read path and on the live-at-read
\* path alike.
WritePhaseRefetches ==
  \A t \in Tasks :
    LET tk == task[t]
        sh == shards[tk.s]
    IN  (tk.pc = "get_unlock" /\ tk.found) =>
          /\ tk.id \in DOMAIN sh.items
          /\ sh.lru[Len(sh.lru)] = sh.items[tk.id]
          /\ tk.val = ents[sh.items[tk.id]].value

\* C25: every step that changes a shard's map, its recency list or the value
\* or createdAt of one of its entries is taken by the task (a caller or the
\* reaper) that holds the shard's write lock when the step ends, having held
\* it before or taken it free in this step; and whoever is inside a write
\* section is the shard's one writer, with no reader inside, while whoever
\* is inside a read section holds the read lock.
WriteLockDiscipline ==
  /\ [][\A i \in ShardIds :
         (\/ shards'[i] # shards[i]
          \/ AbsShard(shards'[i], ents') # AbsShard(shards[i], ents))
           => /\ mu'[i].w # NoTask /\ mu'[i].r = {}
              /\ mu[i].w = mu'[i].w \/ mu[i] = FreeMutex
              /\ \A t \in Tasks : mu'[i].w = t => (task'[t] # task[t] /\ task[t].s = i)
              /\ mu'[i].w = ReaperId => (reaper' # reaper /\ reaper.idx = i)]_vars
  /\ [](\A i \in ShardIds : mu[i].w # NoTask => mu[i].r = {})
  /\ [](\A t \in Tasks :
          /\ task[t].pc \in {"set_insert", "set_unlock", "get_unlock"}
               => mu[task[t].s].w = t
          /\ task[t].pc = "get_runlock" => t \in mu[task[t].s].r)
  /\ [](reaper.pc = "unlock" => mu[reaper.idx].w = ReaperId)

\* C25 witness: a Get has removed its expired key under the write lock while
\* the other caller waits for that lock
WriteLockDisciplineWitness ==
  \E t, u \in Tasks :
    /\ task[t].pc = "get_unlock" /\ task[t].path = "expired" /\ ~task[t].found
    /\ mu[task[t].s] = [w |-> t, r |-> {}]
    /\ task[u].pc \in {"set_lock", "get_rlock", "get_lock"}
    /\ task[u].s = task[t].s

\* the entries of list l other than key k's, in order
Others(l, k) == SelectSeq(l, LAMBDA x : x.key # k)

\* C26: a Set that finds its key in the shard stores the new value in the
\* key's entry, moves that entry to the back of the recency list, sets its
\* createdAt to now when ttl > 0 and leaves it when ttl = 0, and changes
\* nothing else: the shard keeps its size and its keys, the other entries
\* keep their contents and their order, and nothing is evicted, also at
\* capacity, neither in this step nor on the way to the return.
SetExistingFrame ==
  [][\A t \in Tasks :
       LET tk  == task[t]
           k   == tk.o.OrderUid
           old == AbsShard(shards[tk.s], ents)
           new == AbsShard(shards'[tk.s], ents')
       IN  /\ (tk.pc = "set_lock" /\ task'[t].pc = "set_unlock") =>
                /\ k \in DOMAIN old.items
                /\ DOMAIN new.items = DOMAIN old.items
                /\ Len(new.lru) = Len(old.lru)
                /\ new.items[k] =
                     [key |-> k, value |-> tk.o,
                      createdAt |-> IF c.ttl > 0 THEN tk.now
                                    ELSE old.items[k].createdAt]
                /\ new.lru[Len(new.lru)] = new.items[k]
                /\ Others(new.lru, k) = Others(old.lru, k)
                /\ \A j \in DOMAIN old.items \ {k} : new.items[j] = old.items[j]
                /\ \A i \in ShardIds \ {tk.s} : shards'[i] = shards[i]
           /\ (tk.pc = "set_unlock" /\ task'[t] # tk) =>
                AbsCache(shards', ents') = AbsCache(shards, ents)]_vars

\* C26 witness: without ttl, a Set of KeyA at a time after its entry was
\* created has found it at the front of a shard at its capacity of two, has
\* stored the new value and moved it behind KeyB, and both keys are held
SetExistingFrameWitness ==
  \E t \in Tasks :
    LET tk == task[t]
    IN  /\ c.ttl = 0 /\ c.perShardCap = 2
        /\ tk.op = "Set" /\ tk.pc = "set_unlock" /\ tk.o = Order(KeyA, 2)
        /\ Len(hist.touched) = 2
        /\ hist.touched[1].k = KeyA /\ hist.touched[2].k = KeyB
        /\ LruKeys(shards[tk.s], ents) = <<KeyB, KeyA>>
        /\ ents[tk.ent] = [key |-> KeyA, value |-> Order(KeyA, 2), createdAt |-> 0]
        /\ tk.now > 0

\* now - createdAt > ttl for an entry record
ExpiredAt(e, now) == now - e.createdAt > c.ttl

\* C27: a sweep of a shard (ttl > 0) removes from the map and from the list
\* the first n entries of the recency list, all of them expired at the
\* sweep's timestamp, where the entry after them (if any) is not expired;
\* the remaining entries keep their contents and their order, and the other
\* shards and the unlock change nothing.
SweepPrefix ==
  [][/\ (reaper.pc = "lock" /\ reaper'.pc = "unlock") =>
          LET old == AbsShard(shards[reaper.idx], ents)
              new == AbsShard(shards'[reaper.idx], ents')
              n   == Len(old.lru) - Len(new.lru)
          IN  /\ c.ttl > 0
              /\ n >= 0
              /\ new.lru = SubSeq(old.lru, n + 1, Len(old.lru))
              /\ \A p \in 1 .. n : ExpiredAt(old.lru[p], reaper.now)
              /\ n < Len(old.lru) => ~ExpiredAt(old.lru[n + 1], reaper.now)
              /\ new.items = [k \in {new.lru[p].key : p \in 1 .. Len(new.lru)}
                                |-> old.items[k]]
              /\ \A i \in ShardIds \ {reaper.idx} : shards'[i] = shards[i]
     /\ reaper.pc = "unlock" => AbsCache(shards', ents') = AbsCache(shards, ents)]_vars

\* C27 witness: a sweep that found an expired entry in front of one that is
\* not expired has removed the first and kept the second
SweepPrefixWitness ==
  /\ reaper.pc = "unlock" /\ hist.sweep.done
  /\ Len(hist.sweep.before) = 2
  /\ ExpiredAt(hist.sweep.before[1], hist.sweep.now)
  /\ ~ExpiredAt(hist.sweep.before[2], hist.sweep.now)
  /\ AbsShard(shards[reaper.idx], ents).lru = Tail(hist.sweep.before)

\* C28: a complete sweep leaves no expired entry at the front of the shard's
\* list, and that is all it guarantees: an expired entry can remain behind
\* an entry that is not expired.  The state in which it does (Set A, Set B
\* later, a Get of A that finds it, then a sweep at a time when A is expired
\* and B is not) is the witness.
SweepStopsAtFront ==
  (reaper.pc = "unlock") =>
    LET l == AbsShard(shards[reaper.idx], ents).lru
    IN  /\ l # << >> => ~ExpiredAt(l[1], reaper.now)
        /\ \A p \in 1 .. Len(l) :
             ExpiredAt(l[p], reaper.now)
               => \E q \in 1 .. (p - 1) : ~ExpiredAt(l[q], reaper.now)

\* C28 witness: after Set A, Set B at a later time and a Get of A that found
\* it, a sweep has run over the shard at a time when A is expired and B is
\* not, and the shard still holds A
SweepUnderCollects ==
  /\ reaper.pc = "unlock" /\ hist.sweep.done
  /\ hist.touched = <<[k |-> KeyB, by |-> "Set"], [k |-> KeyA, by |-> "Get"]>>
  /\ LruKeys(shards[reaper.idx], ents) = <<KeyB, KeyA>>
  /\ KeyA \in HeldKeys(reaper.idx)
  /\ LET ea == ents[shards[reaper.idx].items[KeyA]]
         eb == ents[shards[reaper.idx].items[KeyB]]
     IN  /\ ea.createdAt < eb.createdAt
         /\ ExpiredAt(ea, reaper.now)
         /\ ~ExpiredAt(eb, reaper.now)

\* C29: when no Get is ever issued and ttl > 0, in every state where a
\* shard's lock is free its recency list is ordered by createdAt, not
\* decreasing from front to back, and after a sweep of a shard no entry
\* expired at the sweep's timestamp remains in it.
CreatedAtOrdered ==
  /\ \A i \in ShardIds :
       (c.ttl > 0 /\ mu[i] = FreeMutex) =>
         LET l == AbsShard(shards[i], ents).lru
         IN  \A p, q \in 1 .. Len(l) : p < q => l[p].createdAt <= l[q].createdAt
  /\ reaper.pc = "unlock" =>
       LET l == AbsShard(shards[reaper.idx], ents).lru
       IN  \A p \in 1 .. Len(l) : ~ExpiredAt(l[p], reaper.now)

\* C30: a Get of a key that is not in its shard takes the miss path, returns
\* the zero order and found = false, and none of its steps changes the
\* cache; a Get that found its key expired and finds it expired again under
\* the write lock removes the key from the map and its entry from the list,
\* returns the zero order and found = false, and leaves the other entries,
\* their order and the other shards as they are; the read phase and the
\* unlocks of a Get change nothing.
GetMissFrame ==
  [][\A t \in Tasks :
       LET tk  == task[t]
           k   == tk.id
           old == AbsShard(shards[tk.s], ents)
           new == AbsShard(shards'[tk.s], ents')
           same == AbsCache(shards', ents') = AbsCache(shards, ents)
       IN  /\ (tk.pc = "get_rlock" /\ task'[t] # tk) =>
                /\ same
                /\ k \notin DOMAIN old.items =>
                     /\ task'[t].path = "miss"
                     /\ task'[t].val = ZeroOrder /\ ~task'[t].found
           /\ (tk.pc = "get_runlock" /\ task'[t] # tk) =>
                /\ same
                /\ tk.path = "miss" =>
                     (task'[t].pc = "idle" /\ tk.val = ZeroOrder /\ ~tk.found)
           /\ (/\ tk.pc = "get_lock" /\ task'[t] # tk /\ tk.path = "expired"
               /\ k \in DOMAIN old.items
               /\ Expired(tk.now, old.items[k].createdAt)) =>
                /\ task'[t].val = ZeroOrder /\ ~task'[t].found
                /\ DOMAIN new.items = DOMAIN old.items \ {k}
                /\ \A j \in DOMAIN new.items : new.items[j] = old.items[j]
                /\ new.lru = Others(old.lru, k)
                /\ Len(new.lru) = Len(old.lru) - 1
                /\ \A i \in ShardIds \ {tk.s} : shards'[i] = shards[i]
           /\ (tk.pc = "get_unlock" /\ task'[t] # tk) => same]_vars

\* C30 witness: a Get has found its key expired in a shard of three entries
\* and removed it; the call is about to return not found and the shard
\* holds the other two
GetMissFrameWitness ==
  \E t \in Tasks :
    LET tk == task[t]
    IN  /\ tk.pc = "get_unlock" /\ tk.path = "expired"
        /\ ~tk.found /\ tk.val = ZeroOrder
        /\ tk.id \notin HeldKeys(tk.s)
        /\ Len(shards[tk.s].lru) = 2
        /\ Cardinality(HeldKeys(tk.s)) = 2

\* C31: in a cache with ttl = 0 the reaper's tick changes nothing: the step
\* that takes a tick leaves every shard's map, list, entries and lock as they
\* are, the reaper is never inside a sweep and never holds a shard's lock,
\* and a key leaves a shard only in the insert step of a Set, by capacity
\* eviction.
ReaperIdleWithoutTtl ==
  /\ [][(c.ttl = 0 /\ tickCh = 1 /\ tickCh' = 0) =>
          /\ shards' = shards /\ ents' = ents /\ mu' = mu
          /\ reaper'.pc = "select"]_vars
  /\ [](c.ttl = 0 =>
          /\ reaper.pc \in {"none", "select", "stopped"}
          /\ \A i \in ShardIds : mu[i].w # ReaperId)
  /\ [][c.ttl = 0 =>
          \A i \in ShardIds :
            (DOMAIN shards[i].items \ DOMAIN shards'[i].items # {}) =>
              \E t \in Tasks :
                /\ task[t].pc = "set_insert" /\ task'[t].pc = "set_unlock"
                /\ task[t].s = i /\ OverCapacity(shards'[i]) = FALSE
                /\ Len(shards[i].lru) > c.perShardCap]_vars

\* C31 witness: in a cache with ttl = 0 and a capacity, whose reaper New
\* launched, the reaper has taken a tick and is back at its select while the
\* shard holds an entry and its lock is free
ReaperIdleWithoutTtlWitness ==
  /\ ~c.isNil /\ c.ttl = 0 /\ c.perShardCap > 0
  /\ reaper.pc = "select"
  /\ clock >= 1 /\ tickCh = 0
  /\ \E i \in ShardIds : Len(shards[i].lru) = 1 /\ mu[i] = FreeMutex

\* the index of the cache's last shard
LastShard == Cardinality(ShardIds) - 1

WriteHeld(who) == {i \in ShardIds : mu[i].w = who}
ReadHeld(who) == {i \in ShardIds : who \in mu[i].r}

\* C33: the locks a caller holds are determined by where it is in its call:
\* the write lock of its shard, and nothing else, from Set's or Get's Lock
\* to the Unlock; the read lock of its shard, and nothing else, from Get's
\* RLock to the RUnlock; and nothing before, between and after, so that a
\* call that has returned (or a load between two elements) holds no lock and
\* Get requests the write lock with the read lock released.  The reaper
\* holds the write lock of the shard it is at from Lock to Unlock and nothing
\* at its select or when stopped.  Every release is of a lock the releasing
\* task holds, and every step takes or releases at most one lock.
LockBalance ==
  /\ [](\A t \in Tasks :
          LET tk == task[t]
          IN  /\ WriteHeld(t) = IF tk.pc \in {"set_insert", "set_unlock", "get_unlock"}
                                  THEN {tk.s} ELSE {}
              /\ ReadHeld(t) = IF tk.pc = "get_runlock" THEN {tk.s} ELSE {})
  /\ [](/\ WriteHeld(ReaperId) = IF reaper.pc = "unlock" THEN {reaper.idx} ELSE {}
        /\ ReadHeld(ReaperId) = {})
  /\ [](\A i \in ShardIds : mu[i].w \in Tasks \cup {ReaperId, NoTask}
                             /\ mu[i].r \subseteq Tasks)
  /\ [][\A i \in ShardIds :
         /\ (mu[i].w # NoTask /\ mu'[i].w # mu[i].w) =>
              /\ mu'[i].w = NoTask
              /\ \A t \in Tasks : mu[i].w = t =>
                   (task[t].pc \in {"set_unlock", "get_unlock"} /\ task'[t] # task[t])
              /\ mu[i].w = ReaperId => (reaper.pc = "unlock" /\ reaper' # reaper)
         /\ \A t \in mu[i].r \ mu'[i].r :
              task[t].pc = "get_runlock" /\ task'[t].pc \in {"idle", "get_lock"}]_vars
  /\ [][Cardinality({i \in ShardIds : mu'[i] # mu[i]}) <= 1]_vars

\* C33 witness: a Get on the path where its key was expired at the read and
\* no longer removable under the write lock is about to unlock and return
\* found, holding exactly its shard's write lock
LockBalanceWitness ==
  \E t \in Tasks :
    /\ task[t].pc = "get_unlock" /\ task[t].path = "expired" /\ task[t].found
    /\ WriteHeld(t) = {task[t].s} /\ ReadHeld(t) = {}
    /\ mu[task[t].s].r = {}


\* C34: in the consumer loop Set is called only for a message that was
\* decoded, then validated, then inserted, in that order: the call is made
\* from the position after the insert, with the order decoded from the
\* message being processed, already in the table; the stages of a message
\* are passed in the order decode, validate, insert; and a message that
\* fails a stage is skipped: that step leaves the cache and its callers as
\* they were, stores nothing, and the loop is back at ReadMessage.
PersistBeforeCache ==
  /\ [](LET all == <<"decode", "validate", "insert">>
        IN  /\ \E n \in 0 .. 3 : consumer.passed = SubSeq(all, 1, n)
            /\ consumer.pc = "validate" => consumer.passed = SubSeq(all, 1, 1)
            /\ consumer.pc = "insert" => consumer.passed = SubSeq(all, 1, 2)
            /\ consumer.pc \in {"set", "cached"} =>
                 /\ consumer.passed = all
                 /\ consumer.order \in db
                 /\ consumer.msg.json /\ consumer.msg.valid
                 /\ consumer.order = Unmarshal(consumer.msg)
            /\ (consumer.pc # "none" /\ task[ConsumerTask].pc # "idle") =>
                 /\ consumer.pc = "cached"
                 /\ task[ConsumerTask].op = "Set"
                 /\ task[ConsumerTask].o = consumer.order)
  /\ [][(consumer.pc # "none" /\ task'[ConsumerTask] # task[ConsumerTask]
           /\ task[ConsumerTask].pc = "idle") =>
          /\ consumer.pc = "set" /\ consumer'.pc = "cached"
          /\ task'[ConsumerTask].pc = "set_lock"
          /\ task'[ConsumerTask].o = consumer.order]_vars
  /\ [][(consumer.pc \in {"decode", "validate", "insert"} /\ consumer'.pc = "read") =>
          /\ \/ consumer.pc = "decode" /\ ~consumer.msg.json
             \/ consumer.pc = "validate" /\ ~consumer.msg.valid
             \/ consumer.pc = "insert"
          /\ UNCHANGED <<cacheVars, task, calls, db>>]_vars
  /\ [][(consumer.pc \in {"decode", "validate", "insert"} /\ consumer' # consumer) =>
          consumer'.pc \in {"read", "validate", "insert", "set"}]_vars

\* C34 witness: the consumer's Set is about to return for an order that is
\* in the table, after an earlier message was read
PersistBeforeCacheWitness ==
  /\ consumer.pc = "cached" /\ consumer.reads = 2
  /\ task[ConsumerTask].pc = "set_unlock"
  /\ task[ConsumerTask].o = Order(KeyB, 1)
  /\ Order(KeyB, 1) \in db


\* C35: a request without an id, or with an id that ValidateOrderID rejects,
\* is answered 400 in the step that receives it, and that step makes no
\* cache call; any other request calls Get with its id and has no answer
\* until Get returns; when Get returns, found = false is answered 404 and
\* found = true is answered 200 with the JSON encoding of the order Get
\* returned, so 200 is the answer only of a Get that found the order.  The
\* handler's caller never runs Set or LoadFromSlice, and no step of the
\* handler changes (or needs) the table.
HandlerMapping ==
  /\ [][handler'.reqs # handler.reqs =>
          IF handler'.id = << >> \/ ~ValidateOrderID(handler'.id)
            THEN /\ handler'.resp.status = 400 /\ handler'.resp.body = << >>
                 /\ handler'.pc = "idle"
                 /\ UNCHANGED <<cacheVars, task, calls>>
            ELSE /\ handler'.pc = "get" /\ handler'.resp = NoResponse
                 /\ task'[HandlerTask].op = "Get"
                 /\ task'[HandlerTask].pc = "get_rlock"
                 /\ task'[HandlerTask].id = handler'.id]_vars
  /\ [][(handler.pc = "get" /\ handler'.pc # "get") =>
          LET tk == task[HandlerTask]
          IN  /\ GetDecided(tk) /\ task'[HandlerTask].pc = "idle"
              /\ handler'.pc = "idle" /\ handler'.id = tk.id
              /\ ~tk.found => /\ handler'.resp.status = 404
                              /\ handler'.resp.body = << >>
              /\ tk.found => /\ handler'.resp.status = 200
                             /\ handler'.resp.body = <<Encode(tk.val)>>]_vars
  /\ [][handler'.resp # handler.resp =>
          \/ handler'.reqs # handler.reqs
          \/ handler.pc = "get" /\ handler'.pc # "get"]_vars
  /\ [](/\ handler.resp.status \in {0, 200, 400, 404}
        /\ handler.pc = "get" <=> task[HandlerTask].pc # "idle"
        /\ handler.pc = "get" => handler.resp = NoResponse
        /\ task[HandlerTask].op \in {"none", "Get"}
        /\ handler.resp.status = 200 =>
             /\ handler.id # << >> /\ ValidateOrderID(handler.id)
             /\ \E o \in Orders : /\ o.OrderUid = handler.id
                                  /\ handler.resp.body = <<Encode(o)>>)
  /\ [][handler' # handler => db' = db]_vars

\* C35 witness: a request for an order that is in the table and not in the
\* cache has been answered 404
HandlerMappingWitness ==
  /\ handler.pc = "idle" /\ handler.id = KeyA
  /\ handler.resp = HttpError(404, "order not found")
  /\ Order(KeyA, 1) \in db


\* cache.New returned a cache to run
NewSucceeded == newpc = "done" /\ newErr = "" /\ ~c.isNil
\* run has executed a return statement
RunReturning == run.pc \in {"defers", "returned"}
\* the return statement was the return nil after wg.Wait
Graceful == RunReturning /\ run.err = NilErr

\* C36: Close is never called twice and never panics; it is called only by
\* run's deferred call, after a return statement; when run has returned,
\* Close has been called once if cache.New had succeeded and not at all if
\* it had not.  On the graceful path the signal was received, the context
\* canceled and Shutdown called, and from the return statement on (so
\* before Close) the consumer goroutine has exited: it stays exited and its
\* caller makes no further cache call.  Under fair scheduling, once a
\* shutdown signal is in sigCh, run returns.
ServerLifecycle ==
  /\ [](closer.calls <= 1 /\ ~closer.panicked)
  /\ [](closer.calls = 1 =>
          /\ RunReturning /\ NewSucceeded /\ stopCh = "closed"
          /\ \A i \in 1 .. Len(run.defers) : run.defers[i] # "cc.Close")
  /\ []((RunReturning /\ closer.calls = 0) =>
          \/ ~NewSucceeded /\ \A i \in 1 .. Len(run.defers) : run.defers[i] # "cc.Close"
          \/ /\ run.pc = "defers"
             /\ Cardinality({i \in 1 .. Len(run.defers) : run.defers[i] = "cc.Close"}) = 1)
  /\ [](run.pc = "returned" => closer.calls = (IF NewSucceeded THEN 1 ELSE 0))
  /\ [][closer' # closer => (run.pc = "defers" /\ Deferred("cc.Close"))]_vars
  /\ [](Graceful =>
          /\ consumer.pc = "done" /\ task[ConsumerTask].pc = "idle"
          /\ ctx = "canceled" /\ http = "shutdown" /\ sig.pc = "done")
  /\ [][consumer.pc = "done" =>
          (consumer' = consumer /\ task'[ConsumerTask] = task[ConsumerTask])]_vars
  /\ (sig.ch = 1) ~> (run.pc = "returned")

\* C36 witness: run has returned nil after a shutdown signal; the consumer
\* had stored and cached an order and has exited; Close was called once and
\* the reaper has stopped
ServerLifecycleWitness ==
  /\ run.pc = "returned" /\ run.err = NilErr
  /\ closer.calls = 1 /\ stopCh = "closed" /\ reaper.pc = "stopped"
  /\ consumer.pc = "done" /\ Order(KeyB, 1) \in db
  /\ \E i \in ShardIds : KeyB \in HeldKeys(i)


\* C37: DoWithTries calls fn at most maxAttempts times (never for
\* maxAttempts <= 0), one call per round of the loop; a call that returns
\* nil is the last one and is followed by the return of nil; when
\* DoWithTries has returned, its result is nil if and only if a call of fn
\* returned nil, and for maxAttempts <= 0 it is an error after no call; under
\* fair scheduling the loop ends.  NewClient gives run a nil pool, and an
\* error, exactly when DoWithTries returned an error; otherwise the pool is
\* the one the successful Connect produced.
RetryContract ==
  /\ [](/\ tries.calls <= Max(0, tries.maxAttempts)
        /\ tries.pc \in {"loop", "sleep"} => (tries.nils = 0 /\ tries.i <= tries.calls)
        /\ tries.pc = "loop" => tries.calls = tries.i
        /\ tries.nils <= 1)
  /\ [](tries.pc = "done" =>
          /\ tries.ret = NilErr <=> tries.nils = 1
          /\ tries.ret = NilErr => (tries.err = NilErr /\ tries.pool = "open")
          /\ tries.ret # NilErr => (tries.pool = "nil" /\ tries.calls = Max(0, tries.maxAttempts))
          /\ tries.maxAttempts <= 0 => (tries.calls = 0 /\ tries.ret # NilErr))
  /\ [][(tries.pc = "done" /\ tries' # tries) =>
          /\ run.pc = "db" /\ run'.pc \in {"new", "defers"}
          /\ run'.pool = "nil" <=> tries.ret # NilErr
          /\ run'.err # NilErr <=> tries.ret # NilErr
          /\ run'.pool = tries.pool \/ tries.ret # NilErr]_vars
  /\ [][tries'.calls > tries.calls =>
          (tries.nils = 0 /\ tries'.calls = tries.calls + 1)]_vars
  /\ (tries.pc = "loop") ~> (tries.pc = "done")

\* C37 witness: DoWithTries has returned nil at its second call of fn, after
\* a first call that failed
RetryContractWitness ==
  /\ tries.pc = "done" /\ tries.ret = NilErr
  /\ tries.calls = 2 /\ tries.i = 1 /\ tries.nils = 1 /\ tries.pool = "open"

=============================================================================
